---------------------------- MODULE Spec2Model ----------------------------
(***************************************************************************)
(* State-machine model of VisualSlamNode::VisualSlamImpl                   *)
(* (isaac_ros_visual_slam/src/impl/visual_slam_impl.cpp): the tracking     *)
(* tick (UpdatePose), the blocking persist command (SaveMap), the          *)
(* composable localize command (LocalizeInMapAsync / LocalizeInMap), the   *)
(* per-tick poll (CheckLocalizationStatus), Initialize and Exit.           *)
(*                                                                         *)
(* Threads: the tracking thread (pcT), one SaveMap caller (pcS), the       *)
(* localize callers (pcL); Exit runs as one step of a thread of its own.   *)
(* The engine (cuVSLAM) is opaque: its calls return a status chosen        *)
(* nondeterministically, and it invokes a completion handler at most once  *)
(* per accepted request, while a track call is executing (source comments  *)
(* at lines 1027 and 1108-1109).                                           *)
(***************************************************************************)
EXTENDS Naturals, Sequences, FiniteSets

(***************************************************************************)
(* Bounds of the model.                                                    *)
(***************************************************************************)
NumCameras == 2
MaxImu == 2
MaxLocalize == 2
MaxTs == 2
MaxImuTs == 3

(***************************************************************************)
(* Engine status codes used by the source.                                 *)
(***************************************************************************)
CUVSLAM_SUCCESS == "CUVSLAM_SUCCESS"
CUVSLAM_TRACKING_LOST == "CUVSLAM_TRACKING_LOST"
CUVSLAM_CAN_NOT_LOCALIZE == "CUVSLAM_CAN_NOT_LOCALIZE"
CUVSLAM_GENERIC_ERROR == "CUVSLAM_GENERIC_ERROR"
CUVSLAM_SLAM_IS_NOT_INITIALIZED == "CUVSLAM_SLAM_IS_NOT_INITIALIZED"

\* What an engine call or an engine completion may report.
EngineStatus == {CUVSLAM_SUCCESS, CUVSLAM_GENERIC_ERROR}
\* What the engine's track call may report.
TrackStatus == {CUVSLAM_SUCCESS, CUVSLAM_TRACKING_LOST, CUVSLAM_GENERIC_ERROR}

\* The threads that issue localize commands: the node's service handler,
\* which keeps the composed future in localization_future_, and the detached
\* thread Initialize starts when localize_on_startup_ is set, which blocks in
\* LocalizeInMap.
LocCallers == {"service", "startup"}
\* What the filesystem checks of the map folder can find.
PathKinds == {"not_dir", "no_mdb", "ok"}
\* Context generations: 0 is the default-constructed member, g > 0 the
\* context created by the g-th localize call.
Gens == 0 .. MaxLocalize
Cameras == 0 .. (NumCameras - 1)
\* Image timestamps (nanoseconds); NoTs stands for the -1 that last_track_ts
\* holds before the first tick, and for a tick local that does not exist.
Timestamps == 1 .. MaxTs
\* The timestamps of the inertial samples and of the groups the sequencer
\* merges them with.
ImuTimestamps == 1 .. MaxImuTs
NoTs == 0
\* What a tick sends out: the frame transforms, the pose, odometry and path
\* messages, the status message and the diagnostics.
PoseOutputs == {"tf", "pose", "odometry", "path"}
StatusOutputs == {"status", "diagnostics"}
\* The history size of the pose cache.
PoseCacheSize == 2

\* num_input_masks_: the mask streams follow the camera streams, stream
\* NumCameras + i carrying the mask of camera i.
NumMasks == 1
Streams == 0 .. (NumCameras + NumMasks - 1)

VARIABLES
  \* configuration (node parameters, fixed for a run)
  enable_localization_n_mapping, enable_imu_fusion, localize_on_startup,
  publish_tf, has_subscribers,
  \* initialization state
  cuvslam_handle, initial_camera_info_messages, initial_imu_message,
  \* the threads inside CallbackCameraInfo, one per camera
  pcC,
  \* the tracking thread inside UpdatePose
  pcT, imu_msgs, imu_i, engine_calls, imu_failed, vo_status, poll_outcome,
  latest_ts, published, odom, covariance_reports, zombie,
  sync_latest_ts, idx_and_image_msgs, cuvslam_images,
  \* what the ticks leave behind
  last_track_ts, pose_cache,
  \* the synchronizer's queues and the sequencer's inertial buffer
  sync_queues, sequencer_imu, sequencer_last_ts, aged_out,
  \* SaveMap and the engine's pending persist request
  pcS, save_promise, save_call_result, save_status, save_waited, save_handler,
  save_torn_down, engine_persist,
  \* the localize command
  ctxGen, promise, composed, engine_localize,
  pcL, genL, pre_unmet, engine_called, accepted, loc_result,
  localization_future_,
  \* an exception that left a completion handler invoked by the engine
  handler_error

cfgVars == <<enable_localization_n_mapping, enable_imu_fusion, localize_on_startup,
             publish_tf, has_subscribers>>
initVars == <<cuvslam_handle, initial_camera_info_messages, initial_imu_message>>
frameVars == <<sync_latest_ts, idx_and_image_msgs, cuvslam_images>>
tickVars == <<pcT, imu_msgs, imu_i, engine_calls, imu_failed, vo_status,
              poll_outcome, latest_ts, published, odom, covariance_reports, frameVars>>
poseVars == <<last_track_ts, pose_cache>>
streamVars == <<sync_queues, sequencer_imu, sequencer_last_ts, aged_out>>
saveVars == <<pcS, save_promise, save_call_result, save_status, save_waited,
              save_handler, save_torn_down>>
locCallVars == <<pcL, genL, pre_unmet, engine_called, accepted, loc_result>>
ctxVars == <<ctxGen, promise>>
vars == <<cfgVars, initVars, pcC, tickVars, poseVars, streamVars, zombie, saveVars, engine_persist,
          ctxVars, composed, engine_localize,
          locCallVars, localization_future_, handler_error>>

\* The inertial samples of a fused batch: up to MaxImu samples in time order,
\* each named by its place in that order.
Batches == {[i \in 1 .. n |-> i] : n \in 0 .. MaxImu}

IsInitialized == cuvslam_handle # "null"

\* The localize contexts a run may still create, the one the started startup
\* thread will create set aside.
ContextsLeft ==
  MaxLocalize - ctxGen - (IF pcL["startup"] = "start" THEN 1 ELSE 0)

\* A readiness test that does not look at the inertial message.
IsReadyForInitializationWith_IgnoreImu(msgs) ==
  Cardinality(msgs) = NumCameras

\* IsReadyForInitialization() (lines 164-175), for the camera infos msgs.
IsReadyForInitializationWith(msgs) ==
  IF enable_imu_fusion /\ ~initial_imu_message THEN FALSE
  ELSE Cardinality(msgs) = NumCameras

(***************************************************************************)
(* Initialization: CallbackCameraInfo, CallbackImu, Initialize.            *)
(***************************************************************************)
\* Initialize() (lines 177-352).  `ok` is whether the ground constraint, the
\* transform lookups and CUVSLAM_CreateTracker all succeed; every failure
\* returns (or throws) before cuvslam_handle is set.  On success the pose
\* cache is reset (line 310), the tracker is stored and, with localize_on_startup_, the detached thread that calls
\* LocalizeInMap is started.  A run creates at most MaxLocalize localize
\* contexts (ContextsLeft): the thread is started only while one is left.
Initialize(ok) ==
  IF IsInitialized \/ ~ok
  THEN UNCHANGED <<cuvslam_handle, pcL, pose_cache>>
  ELSE /\ cuvslam_handle' = "tracker"
       /\ pose_cache' = << >>
       /\ IF localize_on_startup
          THEN /\ pcL["startup"] = "idle"
               /\ ContextsLeft > 0
               /\ pcL' = [pcL EXCEPT !["startup"] = "start"]
          ELSE UNCHANGED pcL

\* CallbackCameraInfo (lines 644-654).  `ok` is read only when Initialize is
\* called; otherwise it is fixed.
CallbackCameraInfo(index, ok) ==
  /\ (IsInitialized
        \/ ~IsReadyForInitializationWith(initial_camera_info_messages \cup {index}))
       => ok
  /\ IF IsInitialized
     THEN UNCHANGED <<initVars, pcL, pose_cache>>
     ELSE /\ initial_camera_info_messages' = initial_camera_info_messages \cup {index}
          /\ UNCHANGED initial_imu_message
          /\ IF IsReadyForInitializationWith(initial_camera_info_messages \cup {index})
             THEN Initialize(ok)
             ELSE UNCHANGED <<cuvslam_handle, pcL, pose_cache>>
  /\ UNCHANGED <<cfgVars, pcC, streamVars, last_track_ts, tickVars, zombie, saveVars, engine_persist, ctxVars, composed,
                 engine_localize, genL, pre_unmet, engine_called, accepted, loc_result,
                 localization_future_,
                 handler_error>>

\* Before initialization the message is kept as the initial inertial message;
\* afterwards it goes to the sequencer, whose batches TickStart draws.
CallbackImu ==
  /\ initial_imu_message' = (IF IsInitialized THEN initial_imu_message ELSE TRUE)
  /\ UNCHANGED <<cfgVars, pcC, streamVars, poseVars, cuvslam_handle, initial_camera_info_messages, tickVars, zombie,
                 saveVars, engine_persist, ctxVars, composed, engine_localize,
                 locCallVars, localization_future_, handler_error>>

\* CallbackCameraInfo and Initialize step by step, for callbacks of different
\* cameras that run on different threads (nothing in lines 644-654 or in
\* Initialize takes a lock).  pcC[index] is where the callback of camera index
\* is: "store" before line 651, "check" before line 652, "init" at the entry
\* of Initialize, "create" before CUVSLAM_CreateTracker, "assign" when the
\* tracker has been created and line 322 has not yet stored it.
CameraInfoEnter(index) ==
  /\ pcC[index] = "idle"
  /\ ~IsInitialized
  /\ pcC' = [pcC EXCEPT ![index] = "store"]
  /\ UNCHANGED <<cfgVars, initVars, tickVars, poseVars, streamVars, zombie, saveVars,
                 engine_persist, ctxVars, composed, engine_localize, locCallVars,
                 localization_future_, handler_error>>

\* Two threads are about to write initial_camera_info_messages and one of
\* them inserts a new key: the writes race.
StoreRaces(index) ==
  \E other \in Cameras \ {index} :
    /\ pcC[other] = "store"
    /\ ~({index, other} \subseteq initial_camera_info_messages)

\* Line 651.  Unsynchronized insertions into the map are undefined: of the
\* outcomes, the message is stored or the insertion is lost.
CameraInfoStore(index, stored) ==
  /\ pcC[index] = "store"
  /\ ~StoreRaces(index) => stored
  /\ initial_camera_info_messages' =
       (IF stored THEN initial_camera_info_messages \cup {index}
        ELSE initial_camera_info_messages)
  /\ pcC' = [pcC EXCEPT ![index] = "check"]
  /\ UNCHANGED <<cfgVars, cuvslam_handle, initial_imu_message, tickVars, poseVars,
                 streamVars, zombie, saveVars, engine_persist, ctxVars, composed,
                 engine_localize, locCallVars, localization_future_, handler_error>>

\* Line 652: IsReadyForInitialization.
CameraInfoCheck(index) ==
  /\ pcC[index] = "check"
  /\ pcC' = [pcC EXCEPT ![index] =
               IF IsReadyForInitializationWith(initial_camera_info_messages)
               THEN "init" ELSE "idle"]
  /\ UNCHANGED <<cfgVars, initVars, tickVars, poseVars, streamVars, zombie, saveVars,
                 engine_persist, ctxVars, composed, engine_localize, locCallVars,
                 localization_future_, handler_error>>

\* Lines 179-182: Initialize returns at once when a handle is present.
InitializeEnter(index) ==
  /\ pcC[index] = "init"
  /\ pcC' = [pcC EXCEPT ![index] = IF IsInitialized THEN "idle" ELSE "create"]
  /\ UNCHANGED <<cfgVars, initVars, tickVars, poseVars, streamVars, zombie, saveVars,
                 engine_persist, ctxVars, composed, engine_localize, locCallVars,
                 localization_future_, handler_error>>

\* Lines 184-308: the preparation and CUVSLAM_CreateTracker; on a failure
\* Initialize returns.
InitializeCreate(index, ok) ==
  /\ pcC[index] = "create"
  /\ pcC' = [pcC EXCEPT ![index] = IF ok THEN "assign" ELSE "idle"]
  /\ UNCHANGED <<cfgVars, initVars, tickVars, poseVars, streamVars, zombie, saveVars,
                 engine_persist, ctxVars, composed, engine_localize, locCallVars,
                 localization_future_, handler_error>>

\* Lines 310-334: the caches are reset, the tracker is stored in
\* cuvslam_handle, whatever it held, and the startup thread is started.
InitializeAssign(index) ==
  /\ pcC[index] = "assign"
  /\ pcC' = [pcC EXCEPT ![index] = "idle"]
  /\ cuvslam_handle' = "tracker"
  /\ pose_cache' = << >>
  /\ IF localize_on_startup
     THEN /\ pcL["startup"] = "idle"
          /\ ContextsLeft > 0
          /\ pcL' = [pcL EXCEPT !["startup"] = "start"]
     ELSE UNCHANGED pcL
  /\ UNCHANGED <<cfgVars, initial_camera_info_messages, initial_imu_message, tickVars,
                 last_track_ts, streamVars, zombie, saveVars, engine_persist, ctxVars,
                 composed, engine_localize, genL, pre_unmet, engine_called, accepted,
                 loc_result, localization_future_, handler_error>>

\* The engine instances that exist: the one cuvslam_handle designates and
\* the ones created by a thread that has not yet stored its tracker.
Engines ==
  (IF IsInitialized THEN 1 ELSE 0)
    + Cardinality({index \in Cameras : pcC[index] = "assign"})

(***************************************************************************)
(* The tracking tick: UpdatePose.                                          *)
(***************************************************************************)
\* A boost::future is ready once it holds a value or an exception.
ComposedReady(g) == composed[g] \in {"pose", "nullopt", "exception"}

\* Whether a caller still has the future of command g in hand (the local f
\* of line 1163 or the future LocalizeInMapAsync returned).
CallerHolds(g, pc, gl) ==
  \E c \in LocCallers : gl[c] = g /\ pc[c] \in {"pre", "store", "get"}

\* Shared states live as long as something refers to them.  From the values
\* p and cm a step gives them, the composed future of a command stays while
\* localization_future_ or a caller holds it, and the state of its promise
\* while it belongs to the member context, a caller holds the command's
\* future, or the continuation has yet to read it.
Release(p, cm) ==
  /\ composed' = [g \in Gens |->
                    IF g # 0 /\ (localization_future_' = g \/ CallerHolds(g, pcL', genL'))
                    THEN cm[g] ELSE "none"]
  /\ promise' = [g \in Gens |->
                   IF \/ g = ctxGen'
                      \/ g # 0 /\ CallerHolds(g, pcL', genL')
                      \/ g # 0 /\ localization_future_' = g /\ cm[g] = "pending"
                   THEN p[g] ELSE "none"]

\* A poll that keeps the slot when get() throws.
CheckLocalizationStatus_KeepOnException ==
  IF localization_future_ # 0 /\ ComposedReady(localization_future_)
  THEN /\ localization_future_' =
            (IF composed[localization_future_] = "exception"
             THEN localization_future_ ELSE 0)
       /\ poll_outcome' = composed[localization_future_]
       /\ Release(promise, composed)
  ELSE /\ UNCHANGED <<localization_future_, composed, promise>>
       /\ poll_outcome' = (IF localization_future_ = 0 THEN "empty" ELSE "not_ready")

\* A poll that waits for the stored future (get() without the zero-wait check).
CheckLocalizationStatus_Blocking ==
  /\ localization_future_ # 0 => ComposedReady(localization_future_)
  /\ localization_future_' = 0
  /\ Release(promise, composed)
  /\ poll_outcome' = (IF localization_future_ = 0 THEN "empty"
                      ELSE composed[localization_future_])

\* CheckLocalizationStatus() (lines 1176-1196), under localization_mutex_:
\* nothing stored, or wait_for(0) not ready: return; ready: get() inside
\* try/catch, then reset() the slot.  poll_outcome records which branch ran,
\* until the next step of the tick.
CheckLocalizationStatus ==
  IF localization_future_ # 0 /\ ComposedReady(localization_future_)
  THEN /\ localization_future_' = 0
       /\ poll_outcome' = composed[localization_future_]
       /\ Release(promise, composed)
  ELSE /\ UNCHANGED <<localization_future_, composed, promise>>
       /\ poll_outcome' = (IF localization_future_ = 0 THEN "empty" ELSE "not_ready")

\* A CallbackImage that hands every frame to the synchronizer.
CallbackImageForwards_Always == TRUE

\* CallbackImage (lines 633-642): the frame is handed to the synchronizer only
\* when IsInitialized(); otherwise it is dropped.
CallbackImageForwards == IsInitialized

\* The entries of a synchronized group are pairs <<stream index, timestamp>>.
\* A latest timestamp that takes the first entry's.
LatestTs_First(msgs) == msgs[1][2]

\* Lines 675-683: std::max_element over the timestamps of the entries.  The
\* code assumes the vector is not empty, and every group here has an entry.
LatestTs(msgs) ==
  CHOOSE t \in {msgs[k][2] : k \in 1 .. Len(msgs)} :
    \A k \in 1 .. Len(msgs) : msgs[k][2] <= t

\* The group of one frame per camera, without masks, all stamped ts.
GroupAt(ts) == [k \in 1 .. NumCameras |-> <<k - 1, ts>>]

\* CallbackSynchronizedImages (lines 656-660) and the entry of UpdatePose
\* (lines 662-683): the synchronizer's callback gets the group and its
\* representative timestamp rep_ts, which goes to the sequencer only; the
\* sequencer hands UpdatePose the inertial samples of the fused batch and the
\* group, and UpdatePose takes its own latest_ts from the group.
UpdatePoseStart(batch, msgs, rep_ts) ==
  /\ pcT = "idle"
  /\ pcT' = "poll"
  /\ imu_msgs' = batch
  /\ imu_i' = 1
  /\ sync_latest_ts' = rep_ts
  /\ idx_and_image_msgs' = msgs
  /\ latest_ts' = LatestTs(msgs)
  /\ UNCHANGED <<engine_calls, imu_failed, vo_status, poll_outcome, published, odom, covariance_reports,
                 cuvslam_images>>

\* CallbackImage -> synchronizer -> sequencer -> UpdatePose (lines 633-669):
\* frames are forwarded only when initialized.  The frame delivered completes
\* a group of one frame per camera, all with the timestamp ts, and the
\* sequencer has the inertial samples of batch for it.
TickStart(batch, ts) ==
  /\ CallbackImageForwards
  /\ UpdatePoseStart(batch, GroupAt(ts), ts)
  /\ UNCHANGED <<cfgVars, pcC, streamVars, poseVars, initVars, zombie, saveVars, engine_persist, ctxVars, composed,
                 engine_localize, locCallVars,
                 localization_future_,
                 handler_error>>

\* Line 672.
UpdatePose_Poll ==
  /\ pcT = "poll"
  /\ pcT' = "imu"
  /\ engine_calls' = Append(engine_calls, <<"Poll", 0>>)
  /\ UNCHANGED <<imu_msgs, imu_i, imu_failed, vo_status, latest_ts, published, odom, covariance_reports, frameVars>>
  /\ UNCHANGED <<cfgVars, pcC, streamVars, poseVars, initVars, zombie, saveVars, engine_persist, ctxGen,
                 engine_localize, locCallVars, handler_error>>
  /\ CheckLocalizationStatus

\* A loop that gives up on the batch when a registration fails.
RegisterImuStep_StopOnFailure(status) ==
  /\ engine_calls' = Append(engine_calls, <<"RegisterImu", imu_msgs[imu_i]>>)
  /\ imu_failed' = (imu_failed \/ status # CUVSLAM_SUCCESS)
  /\ imu_i' = (IF status # CUVSLAM_SUCCESS THEN Len(imu_msgs) + 1 ELSE imu_i + 1)

\* One iteration of the loop at lines 698-708: the sample is registered and a
\* failure is only logged.
RegisterImuStep(status) ==
  /\ engine_calls' = Append(engine_calls, <<"RegisterImu", imu_msgs[imu_i]>>)
  /\ imu_failed' = (imu_failed \/ status # CUVSLAM_SUCCESS)
  /\ imu_i' = imu_i + 1

UpdatePose_RegisterImu(status) ==
  /\ pcT = "imu"
  /\ imu_i <= Len(imu_msgs)
  /\ RegisterImuStep(status)
  /\ poll_outcome' = "none"
  /\ UNCHANGED <<pcT, imu_msgs, vo_status, latest_ts, published, odom, covariance_reports, frameVars>>
  /\ UNCHANGED <<cfgVars, pcC, streamVars, poseVars, initVars, zombie, saveVars, engine_persist, ctxVars, composed,
                 engine_localize, locCallVars,
                 localization_future_,
                 handler_error>>

\* The mask_msgs of lines 715-720: the cameras whose mask is in the group.
MaskedCameras(msgs) ==
  {msgs[k][1] - NumCameras : k \in {j \in 1 .. Len(msgs) : msgs[j][1] >= NumCameras}}

IsCameraEntry(e) == e[1] < NumCameras

\* A conversion that gives every image the mask of the group's first mask.
TocuVSLAMImages_AnyMask(msgs, ts) ==
  LET cams == SelectSeq(msgs, IsCameraEntry)
  IN  [k \in 1 .. Len(cams) |->
         [camera |-> cams[k][1], timestamp |-> ts,
          mask |-> MaskedCameras(msgs) # {}]]

\* Lines 710-731: one CUVSLAM_Image per entry with a camera index, in the
\* order of the group, stamped ts, with the mask found under its index.
TocuVSLAMImages(msgs, ts) ==
  LET cams == SelectSeq(msgs, IsCameraEntry)
  IN  [k \in 1 .. Len(cams) |->
         [camera |-> cams[k][1], timestamp |-> ts,
          mask |-> cams[k][1] \in MaskedCameras(msgs)]]

\* Lines 710-742: the loop is over, the images are converted and
\* CUVSLAM_TrackGpuMem is entered with them.
UpdatePose_Track ==
  /\ pcT = "imu"
  /\ imu_i > Len(imu_msgs)
  /\ engine_calls' = Append(engine_calls, <<"Track", 0>>)
  /\ cuvslam_images' = TocuVSLAMImages(idx_and_image_msgs, latest_ts)
  /\ pcT' = "intrack"
  /\ poll_outcome' = "none"
  /\ UNCHANGED <<imu_msgs, imu_i, imu_failed, vo_status, latest_ts, published, odom, covariance_reports,
                 sync_latest_ts, idx_and_image_msgs>>
  /\ UNCHANGED <<cfgVars, pcC, streamVars, poseVars, initVars, zombie, saveVars, engine_persist, ctxVars, composed,
                 engine_localize, locCallVars,
                 localization_future_,
                 handler_error>>

\* UpdatePose returns: its locals are gone.
UpdatePoseReturns ==
  /\ pcT' = "idle"
  /\ imu_msgs' = << >>
  /\ imu_i' = 1
  /\ engine_calls' = << >>
  /\ imu_failed' = FALSE
  /\ vo_status' = "none"
  /\ poll_outcome' = "none"
  /\ latest_ts' = NoTs
  /\ published' = {}
  /\ odom' = "none"
  /\ covariance_reports' = "none"
  /\ sync_latest_ts' = NoTs
  /\ idx_and_image_msgs' = << >>
  /\ cuvslam_images' = << >>

\* PoseMotionCache (its code is not part of src/): Add inserts a sample and
\* evicts the oldest beyond the history size, Reset clears the buffer.  A
\* sample is named by its timestamp.
PoseCacheAdd(cache, ts) ==
  IF Len(cache) < PoseCacheSize THEN Append(cache, ts)
  ELSE Append(Tail(cache), ts)

PoseCacheReset == << >>

\* A tick that treats a failing SLAM pose query as a success.
ReturnsEarly_IgnoreSlamPose(status, ground_ok, slam_pose_status) ==
  \/ status \notin {CUVSLAM_SUCCESS, CUVSLAM_TRACKING_LOST}
  \/ status = CUVSLAM_SUCCESS /\ ~ground_ok

\* The returns of lines 748-750 (a track status other than success and
\* tracking lost), 757-762 (the ground constraint fails) and 775-781
\* (CUVSLAM_GetSlamPose fails, asked only with localization and mapping).
ReturnsEarly(status, ground_ok, slam_pose_status) ==
  \/ status \notin {CUVSLAM_SUCCESS, CUVSLAM_TRACKING_LOST}
  \/ status = CUVSLAM_SUCCESS /\ ~ground_ok
  \/ /\ status = CUVSLAM_SUCCESS
     /\ enable_localization_n_mapping
     /\ slam_pose_status # CUVSLAM_SUCCESS

\* A tick that keeps the pose cache when tracking is lost.
PoseCacheStep_KeepOnLoss(status) ==
  IF status = CUVSLAM_TRACKING_LOST THEN pose_cache
  ELSE PoseCacheAdd(pose_cache, latest_ts)

\* A tick that stamps the sample with the timestamp of the tick before.
PoseCacheStep_StampLast(status) ==
  IF status = CUVSLAM_TRACKING_LOST THEN PoseCacheReset
  ELSE PoseCacheAdd(pose_cache, last_track_ts)

\* The pose cache after a tick that does not return early: reset on tracking
\* lost (line 746), one sample stamped latest_ts added on success (line 813).
PoseCacheStep(status) ==
  IF status = CUVSLAM_TRACKING_LOST THEN PoseCacheReset
  ELSE PoseCacheAdd(pose_cache, latest_ts)

\* What a tick that does not return early sends out: on success the frame
\* transforms (lines 790-810, when the publish_*_tf parameters ask for them)
\* and the pose, odometry and path messages (lines 836-930, each to its
\* subscribers); in every case the status and the diagnostics (lines
\* 947-990, to their subscribers).
Publications(status) ==
  (IF status = CUVSLAM_SUCCESS
   THEN (IF publish_tf THEN {"tf"} ELSE {})
          \cup (IF has_subscribers THEN PoseOutputs \ {"tf"} ELSE {})
   ELSE {})
    \cup (IF has_subscribers THEN StatusOutputs ELSE {})

\* A covariance is the array of 36 numbers of an odometry message, the entry
\* of row i and column j at i * 6 + j.  What a cache gives is the result of
\* its GetCovariance and the array as the call leaves it: an estimate when
\* the covariance is available, anything otherwise.
CovarianceArrays ==
  {[k \in 0 .. 35 |-> 0], [k \in 0 .. 35 |-> 2], [k \in 0 .. 35 |-> k % 3]}

CovarianceReports == [res : BOOLEAN, covariance : CovarianceArrays]

NoCovariance == [res |-> FALSE, covariance |-> [k \in 0 .. 35 |-> 0]]

\* The array after the loops of lines 859-863 and 875-879: entry i * 6 + j is
\* 1 when i = j and 0 otherwise, for i and j from 0 to 5.
DefaultCovariance ==
  [k \in 0 .. 35 |->
     IF \E i \in 0 .. 5 : k = i * 6 + i THEN 1 ELSE 0]

\* A publisher that sends what the cache left in the array.
PublishedCovariance_AsLeft(report) == report.covariance

\* Lines 856-864 and 873-880: GetCovariance writes into the message, and when
\* it returns false the array is overwritten with the default.
PublishedCovariance(report) ==
  IF report.res THEN report.covariance ELSE DefaultCovariance

\* The odometry message of lines 850-882, as far as its covariances go.
Odometry(pose_report, twist_report) ==
  [pose_covariance |-> PublishedCovariance(pose_report),
   twist_covariance |-> PublishedCovariance(twist_report)]

\* The inputs of the rest of the tick: status is what CUVSLAM_TrackGpuMem
\* returns, ground_ok whether there is no ground constraint or PoseToGround
\* succeeds, slam_pose_status what CUVSLAM_GetSlamPose returns.  An input the
\* tick does not read (a query it does not reach) is fixed.
TrackInputs(status, ground_ok, slam_pose_status) ==
  /\ status # CUVSLAM_SUCCESS => ground_ok
  /\ (status # CUVSLAM_SUCCESS \/ ~ground_ok \/ ~enable_localization_n_mapping)
       => slam_pose_status = CUVSLAM_SUCCESS

\* CUVSLAM_TrackGpuMem returns and the tick runs on (lines 740-992).
\* On an early return UpdatePose is over; else
\* the pose cache is updated, the outputs are sent and last_track_ts is set
\* (line 992).  A tracker destroyed while the call was executing (zombie)
\* delivers no completion after the call.  handler_error, what escaped the
\* handlers the engine invoked during the call, is forgotten with the call.
UpdatePose_TrackReturn(status, ground_ok, slam_pose_status) ==
  /\ pcT = "intrack"
  /\ TrackInputs(status, ground_ok, slam_pose_status)
  /\ IF ReturnsEarly(status, ground_ok, slam_pose_status)
     THEN /\ UpdatePoseReturns
          /\ UNCHANGED poseVars
     ELSE /\ vo_status' = status
          /\ pcT' = "post"
          /\ pose_cache' = PoseCacheStep(status)
          /\ published' = Publications(status)
          /\ \E pose_report \in CovarianceReports, twist_report \in CovarianceReports :
               /\ "odometry" \notin Publications(status)
                    => (pose_report = NoCovariance /\ twist_report = NoCovariance)
               /\ covariance_reports' =
                    (IF "odometry" \in Publications(status)
                     THEN [pose |-> pose_report, twist |-> twist_report]
                     ELSE "none")
               /\ odom' = (IF "odometry" \in Publications(status)
                           THEN Odometry(pose_report, twist_report)
                           ELSE "none")
          /\ last_track_ts' = latest_ts
          /\ UNCHANGED <<imu_msgs, imu_i, engine_calls, imu_failed, poll_outcome,
                         latest_ts, frameVars>>
  /\ zombie' = FALSE
  /\ engine_persist' = (IF zombie THEN FALSE ELSE engine_persist)
  /\ engine_localize' = (IF zombie THEN {} ELSE engine_localize)
  /\ handler_error' = FALSE
  /\ UNCHANGED <<cfgVars, pcC, streamVars, initVars, saveVars, ctxVars, composed, locCallVars,
                 localization_future_>>

\* Line 993: UpdatePose returns.
UpdatePose_Finish ==
  /\ pcT = "post"
  /\ UpdatePoseReturns
  /\ UNCHANGED <<cfgVars, pcC, streamVars, poseVars, initVars, zombie, saveVars, engine_persist, ctxVars, composed,
                 engine_localize, locCallVars,
                 localization_future_, handler_error>>

(***************************************************************************)
(* The blocking persist command: SaveMap and SaveToSlamDbResponse.         *)
(***************************************************************************)
\* A SaveMap that goes on to the engine call whatever the configuration.
SaveMapEnter_NoFeatureCheck ==
  /\ pcS' = "call"
  /\ save_promise' = "unset"
  /\ UNCHANGED save_status

\* Lines 996-1013: the feature check, then the stack-local context and its
\* future (save_promise = "unset").
SaveMapEnter ==
  IF ~enable_localization_n_mapping
  THEN /\ pcS' = "ret"
       /\ save_status' = CUVSLAM_SLAM_IS_NOT_INITIALIZED
       /\ UNCHANGED save_promise
  ELSE /\ pcS' = "call"
       /\ save_promise' = "unset"
       /\ UNCHANGED save_status

SaveMap_Start ==
  /\ pcS = "idle"
  /\ SaveMapEnter
  /\ UNCHANGED <<save_call_result, save_waited, save_handler, save_torn_down>>
  /\ UNCHANGED <<cfgVars, pcC, streamVars, poseVars, initVars, tickVars, zombie, engine_persist, ctxVars, composed,
                 engine_localize, locCallVars,
                 localization_future_,
                 handler_error>>

\* A SaveMap that blocks on the future whatever the engine call returned.
SaveMapCall_WaitAlways(call_result) ==
  /\ save_call_result' = call_result
  /\ pcS' = "wait"
  /\ save_waited' = TRUE
  /\ engine_persist' = (call_result = CUVSLAM_SUCCESS)
  /\ UNCHANGED save_status

\* Lines 1015-1025: CUVSLAM_SaveToSlamDb is called with the handler and the
\* context; a failure is returned at once, otherwise the request is pending
\* in the engine and SaveMap goes on to response_future.get().
SaveMapCall(call_result) ==
  /\ save_call_result' = call_result
  /\ IF call_result # CUVSLAM_SUCCESS
     THEN /\ pcS' = "ret"
          /\ save_status' = call_result
          /\ UNCHANGED <<save_waited, engine_persist>>
     ELSE /\ pcS' = "wait"
          /\ save_waited' = TRUE
          /\ engine_persist' = TRUE
          /\ UNCHANGED save_status

\* The engine accepts a request only on a live tracker.
SaveMap_Call(call_result) ==
  /\ pcS = "call"
  /\ call_result = CUVSLAM_SUCCESS => IsInitialized
  /\ SaveMapCall(call_result)
  /\ UNCHANGED <<save_promise, save_handler, save_torn_down>>
  /\ UNCHANGED <<cfgVars, pcC, streamVars, poseVars, initVars, tickVars, zombie, ctxVars, composed,
                 engine_localize, locCallVars,
                 localization_future_,
                 handler_error>>

\* A SaveMap that reports success without reading the response.
SaveMapGet_IgnoreResponse ==
  /\ pcS' = "ret"
  /\ save_status' = CUVSLAM_SUCCESS

\* Lines 1027-1035: response_future.get() returns once the promise is set;
\* the response's status is returned.
SaveMapGet ==
  /\ save_promise # "unset"
  /\ pcS' = "ret"
  /\ save_status' = save_promise

SaveMap_Get ==
  /\ pcS = "wait"
  /\ SaveMapGet
  /\ UNCHANGED <<save_promise, save_call_result, save_waited, save_handler,
                 save_torn_down>>
  /\ UNCHANGED <<cfgVars, pcC, streamVars, poseVars, initVars, tickVars, zombie, engine_persist, ctxVars, composed,
                 engine_localize, locCallVars,
                 localization_future_,
                 handler_error>>

\* The caller has the status; the context of this call is gone.
SaveMap_Return ==
  /\ pcS = "ret"
  /\ pcS' = "idle"
  /\ save_promise' = "none"
  /\ save_call_result' = "none"
  /\ save_status' = "none"
  /\ save_waited' = FALSE
  /\ save_handler' = "none"
  /\ save_torn_down' = FALSE
  /\ UNCHANGED <<cfgVars, pcC, streamVars, poseVars, initVars, tickVars, zombie, engine_persist, ctxVars, composed,
                 engine_localize, locCallVars,
                 localization_future_,
                 handler_error>>

\* A handler that takes the status and leaves the promise alone.
SaveToSlamDbResponse_NoSetValue(status) ==
  /\ UNCHANGED save_promise
  /\ save_handler' = status

\* SaveToSlamDbResponse (lines 1198-1206): the status is delivered through
\* the context's promise.
SaveToSlamDbResponse(status) ==
  /\ save_promise' = status
  /\ save_handler' = status

\* The engine completes the pending persist request during a track call.
EngineCompletesPersist(status) ==
  /\ pcT = "intrack"
  /\ engine_persist
  /\ engine_persist' = FALSE
  /\ SaveToSlamDbResponse(status)
  /\ UNCHANGED <<pcS, save_call_result, save_status, save_waited, save_torn_down>>
  /\ UNCHANGED <<cfgVars, pcC, streamVars, poseVars, initVars, tickVars, zombie, ctxVars, composed,
                 engine_localize, locCallVars,
                 localization_future_,
                 handler_error>>

(***************************************************************************)
(* Exit.                                                                   *)
(***************************************************************************)
\* An Exit that leaves the localize promise alone.
ExitSetValue_Skip ==
  UNCHANGED promise

\* Lines 385-392: set_value(CUVSLAM_CAN_NOT_LOCALIZE) on the promise of
\* localize_in_exist_db_context inside try/catch; on a promise that already
\* holds a value set_value throws and the exception is caught: the promise
\* is left as it was and Exit returns normally.
ExitSetValue ==
  IF promise[ctxGen] = "unset"
  THEN promise' = [promise EXCEPT ![ctxGen] = CUVSLAM_CAN_NOT_LOCALIZE]
  ELSE UNCHANGED promise

Exit_KeepCameraInfos ==
  /\ cuvslam_handle' = "null"
  /\ UNCHANGED initial_camera_info_messages
  /\ initial_imu_message' = FALSE
  /\ IF IsInitialized
     THEN IF pcT = "intrack"
          THEN zombie' = TRUE /\ UNCHANGED <<engine_persist, engine_localize>>
          ELSE engine_persist' = FALSE /\ engine_localize' = {} /\ UNCHANGED zombie
     ELSE UNCHANGED <<zombie, engine_persist, engine_localize>>
  /\ ExitSetValue
  /\ save_torn_down' = (save_torn_down \/ (pcS = "wait" /\ save_promise = "unset"))
  /\ UNCHANGED ctxGen
  /\ UNCHANGED <<pcS, save_promise, save_call_result, save_status, save_waited,
                 save_handler>>
  /\ pose_cache' = << >>
  /\ UNCHANGED <<cfgVars, pcC, streamVars, last_track_ts, tickVars, composed, locCallVars,
                 localization_future_, handler_error>>

\* Exit() (lines 354-393): the tracker is destroyed, the pose cache is reset,
\* the initial messages are cleared and the localize promise is resolved.  Requests pending in a
\* destroyed tracker are never completed, unless a track call is executing at
\* that moment (zombie): nothing synchronizes Exit with UpdatePose, so that
\* call may still deliver them.  save_torn_down records that Exit has run
\* while SaveMap was blocked on a request the engine had accepted and not
\* completed.
Exit ==
  /\ cuvslam_handle' = "null"
  /\ initial_camera_info_messages' = {}
  /\ initial_imu_message' = FALSE
  /\ IF IsInitialized
     THEN IF pcT = "intrack"
          THEN zombie' = TRUE /\ UNCHANGED <<engine_persist, engine_localize>>
          ELSE engine_persist' = FALSE /\ engine_localize' = {} /\ UNCHANGED zombie
     ELSE UNCHANGED <<zombie, engine_persist, engine_localize>>
  /\ ExitSetValue
  /\ save_torn_down' = (save_torn_down \/ (pcS = "wait" /\ save_promise = "unset"))
  /\ UNCHANGED ctxGen
  /\ UNCHANGED <<pcS, save_promise, save_call_result, save_status, save_waited,
                 save_handler>>
  /\ pose_cache' = << >>
  /\ UNCHANGED <<cfgVars, pcC, streamVars, last_track_ts, tickVars, composed, locCallVars,
                 localization_future_, handler_error>>

(***************************************************************************)
(* The localize command.                                                   *)
(***************************************************************************)
\* CuvslamInternalLocalizeInMapAsync, lines 1044-1045: the member context is
\* replaced by a fresh one and its future is taken.  The promise of the
\* replaced context is gone: its shared state, if a future was taken from it
\* and it holds no value, either stays unset for ever or is abandoned with
\* broken_promise, depending on the promise implementation (`old`).
NewContext(c, old) ==
  /\ ctxGen' = ctxGen + 1
  /\ genL' = [genL EXCEPT ![c] = ctxGen + 1]
  /\ Release([promise EXCEPT
                ![ctxGen] = IF @ = "unset" THEN old ELSE @,
                ![ctxGen + 1] = "unset"], composed)

\* LocalizeInMapAsync, lines 1117-1132 and 1163, up to lines 1044-1045 of
\* CuvslamInternalLocalizeInMapAsync.  The pose hint is converted with
\* GetLatestTransform (lines 455-482), which throws std::runtime_error when
\* the lookup fails (tf_ok = FALSE); otherwise the context is replaced.  The
\* service handler starts a call at any time (while a context is left); the
\* startup thread makes the call Initialize started it for.
LocalizeInMapAsync_Start(c, tf_ok, old) ==
  /\ IF c = "service"
     THEN pcL[c] = "idle" /\ (tf_ok => ContextsLeft > 0)
     ELSE pcL[c] = "start"
  /\ (~tf_ok \/ ctxGen = 0 \/ promise[ctxGen] # "unset") => old = "unset"
  /\ IF tf_ok
     THEN pcL' = [pcL EXCEPT ![c] = "pre"]
     ELSE pcL' = [pcL EXCEPT ![c] = "threw"]
  /\ UNCHANGED <<pre_unmet, engine_called, accepted, loc_result>>
  /\ UNCHANGED <<cfgVars, pcC, streamVars, poseVars, initVars, tickVars, zombie, saveVars, engine_persist,
                 engine_localize, localization_future_,
                 handler_error>>
  /\ IF tf_ok
     THEN NewContext(c, old)
     ELSE UNCHANGED <<ctxVars, genL, composed>>

\* LocalizeInExistDbResponse (lines 1209-1219): the response is delivered
\* through the promise of the context the pointer designates, which is always
\* the member localize_in_exist_db_context, that is the current context.
\* set_value on a promise that already holds a value throws
\* promise_already_satisfied, and the handler does not catch it.
HandlerThrows == promise[ctxGen] # "unset"

LocalizeInExistDbResponse(status) ==
  IF HandlerThrows THEN promise ELSE [promise EXCEPT ![ctxGen] = status]

\* Whether the preconditions of lines 1047-1079 are unmet.
PreconditionUnmet(kind) == ~enable_localization_n_mapping \/ kind # "ok"

PreconditionStatus(kind) ==
  IF ~enable_localization_n_mapping THEN CUVSLAM_SLAM_IS_NOT_INITIALIZED
  ELSE CUVSLAM_GENERIC_ERROR

\* The state a caller is in once LocalizeInMapAsync has returned the composed
\* future: the service handler stores it, LocalizeInMap blocks on it.
Returned(c) == IF c = "service" THEN "store" ELSE "get"

\* CuvslamInternalLocalizeInMapAsync, lines 1047-1113, and the .then() of
\* lines 1163-1165.  An unmet precondition calls the handler directly and
\* returns the future; otherwise CUVSLAM_LocalizeInExistDb is called with the
\* handler and the address of the member context, and the future is returned
\* whatever the call reports (after a failure the callback is still expected,
\* lines 1102-1106: cb is whether the engine will make it); accepted keeps,
\* for the duration of the call, whether the engine accepted.  call_result and
\* cb exist only when the engine is called, and `old` only when an unset
\* promise is replaced: where a step does not read an input, it is fixed.
LocalizeBody(c, kind, call_result, cb) ==
  IF PreconditionUnmet(kind)
  THEN /\ UNCHANGED <<engine_localize, engine_called, accepted>>
       /\ IF HandlerThrows
          THEN /\ pcL' = [pcL EXCEPT ![c] = "threw"]
               /\ Release(promise, composed)
          ELSE /\ pcL' = [pcL EXCEPT ![c] = Returned(c)]
               /\ Release(LocalizeInExistDbResponse(PreconditionStatus(kind)),
                          [composed EXCEPT ![genL[c]] = "pending"])
  ELSE /\ engine_called' = [engine_called EXCEPT ![c] = TRUE]
       /\ accepted' = [accepted EXCEPT ![c] = (call_result = CUVSLAM_SUCCESS)]
       /\ engine_localize' =
            (IF call_result = CUVSLAM_SUCCESS \/ cb
             THEN engine_localize \cup {<<genL[c], call_result = CUVSLAM_SUCCESS>>}
             ELSE engine_localize)
       /\ pcL' = [pcL EXCEPT ![c] = Returned(c)]
       /\ Release(promise, [composed EXCEPT ![genL[c]] = "pending"])

CuvslamInternalLocalizeInMapAsync_Body(c, kind, call_result, cb) ==
  /\ pcL[c] = "pre"
  /\ call_result = CUVSLAM_SUCCESS => IsInitialized
  /\ PreconditionUnmet(kind) => (call_result = CUVSLAM_GENERIC_ERROR /\ ~cb)
  /\ call_result = CUVSLAM_SUCCESS => cb
  /\ pre_unmet' = [pre_unmet EXCEPT ![c] = PreconditionUnmet(kind)]
  /\ UNCHANGED <<ctxGen, genL, loc_result>>
  /\ UNCHANGED <<cfgVars, pcC, streamVars, poseVars, initVars, tickVars, zombie, saveVars, engine_persist,
                 localization_future_,
                 handler_error>>
  /\ LocalizeBody(c, kind, call_result, cb)

\* The engine completes a pending localize request during a track call; a
\* request whose call had failed is completed with a failure.
EngineCompletesLocalize(req, status) ==
  /\ pcT = "intrack"
  /\ req \in engine_localize
  /\ ~req[2] => status # CUVSLAM_SUCCESS
  /\ engine_localize' = engine_localize \ {req}
  /\ promise' = LocalizeInExistDbResponse(status)
  /\ handler_error' = (handler_error \/ HandlerThrows)
  /\ UNCHANGED ctxGen
  /\ UNCHANGED <<cfgVars, pcC, streamVars, poseVars, initVars, tickVars, zombie, saveVars, engine_persist,
                 composed, locCallVars,
                 localization_future_>>

\* The continuation of lines 1134-1161, run once the response future is
\* ready: response_future.get() rethrows an abandoned promise's exception;
\* a failure status gives std::nullopt, success the converted pose.
Continuation(g) ==
  /\ composed[g] = "pending"
  /\ promise[g] \notin {"unset", "none"}
  /\ UNCHANGED <<cfgVars, pcC, streamVars, poseVars, initVars, tickVars, zombie, saveVars, engine_persist, ctxGen,
                 engine_localize, locCallVars,
                 localization_future_, handler_error>>
  /\ Release(promise, [composed EXCEPT ![g] =
                IF promise[g] = "broken" THEN "exception"
                ELSE IF promise[g] = CUVSLAM_SUCCESS THEN "pose" ELSE "nullopt"])

\* The service handler keeps the composed future in localization_future_,
\* under localization_mutex_.
StoreLocalizationFuture ==
  /\ pcL["service"] = "store"
  /\ localization_future_' = genL["service"]
  /\ pcL' = [pcL EXCEPT !["service"] = "idle"]
  /\ genL' = [genL EXCEPT !["service"] = 0]
  /\ pre_unmet' = [pre_unmet EXCEPT !["service"] = FALSE]
  /\ engine_called' = [engine_called EXCEPT !["service"] = FALSE]
  /\ accepted' = [accepted EXCEPT !["service"] = FALSE]
  /\ UNCHANGED <<loc_result>>
  /\ UNCHANGED <<cfgVars, pcC, streamVars, poseVars, initVars, tickVars, zombie, saveVars, engine_persist, ctxGen,
                 engine_localize, handler_error>>
  /\ Release(promise, composed)

\* LocalizeInMap (lines 1168-1174): get() on the composed future returns its
\* value, or rethrows its exception, once it is ready.
LocalizeInMap_Get ==
  /\ pcL["startup"] = "get"
  /\ ComposedReady(genL["startup"])
  /\ IF composed[genL["startup"]] = "exception"
     THEN /\ pcL' = [pcL EXCEPT !["startup"] = "threw"]
          /\ UNCHANGED loc_result
     ELSE /\ pcL' = [pcL EXCEPT !["startup"] = "done"]
          /\ loc_result' = [loc_result EXCEPT !["startup"] = composed[genL["startup"]]]
  /\ UNCHANGED <<genL, pre_unmet, engine_called, accepted>>
  /\ UNCHANGED <<cfgVars, pcC, streamVars, poseVars, initVars, tickVars, zombie, saveVars, engine_persist, ctxGen,
                 engine_localize,
                 localization_future_,
                 handler_error>>
  /\ Release(promise, composed)

\* The call is over for its caller: it has the result (lines 345-349) or the
\* exception.
Localize_End(c) ==
  /\ pcL[c] \in {"done", "threw"}
  /\ pcL' = [pcL EXCEPT ![c] = "idle"]
  /\ genL' = [genL EXCEPT ![c] = 0]
  /\ pre_unmet' = [pre_unmet EXCEPT ![c] = FALSE]
  /\ engine_called' = [engine_called EXCEPT ![c] = FALSE]
  /\ accepted' = [accepted EXCEPT ![c] = FALSE]
  /\ loc_result' = [loc_result EXCEPT ![c] = "none"]
  /\ UNCHANGED <<cfgVars, pcC, streamVars, poseVars, initVars, tickVars, zombie, saveVars, engine_persist, ctxVars,
                 composed, engine_localize,
                 localization_future_,
                 handler_error>>

(***************************************************************************)
(* The synchronizer and the sequencer.  Their code is not part of the      *)
(* source file: they are constructed at lines 113-119 and used at lines    *)
(* 629, 640 and 659, and behave here as the design document describes them *)
(* (its sections 4.1 and 4.2).  A frame is its timestamp in the queue of   *)
(* its stream, an inertial sample is its timestamp.  Every stream is       *)
(* required (min_num_images_ = num_cameras_).  The specifications that     *)
(* start a tick with TickStart keep no content of either: there the batch  *)
(* and the group are drawn.                                                *)
(***************************************************************************)
\* image_buffer_size_, sync_matching_threshold_ms_, imu_buffer_size_,
\* imu_jitter_threshold_ms_ (lines 113-119), in units of one timestamp.
ImageBufferSize == 2
SyncMatchingThreshold == 1
ImuBufferSize == 2
ImuJitterThreshold == 1

MaxOf(S) == CHOOSE x \in S : \A y \in S : y <= x
MinOf(S) == CHOOSE x \in S : \A y \in S : x <= y

RemoveAt(seq, k) == [j \in 1 .. (Len(seq) - 1) |-> IF j < k THEN seq[j] ELSE seq[j + 1]]

\* Insertion into a bounded queue: when it is full the oldest entry goes.
BoundedAppend_DropNewest(q, cap, x) == IF Len(q) = cap THEN q ELSE Append(q, x)

BoundedAppend(q, cap, x) == Append(IF Len(q) = cap THEN Tail(q) ELSE q, x)

\* AddMessage, the insertion: only the queue of the stream changes.
SyncInsert(queues, index, ts) ==
  [queues EXCEPT ![index] = BoundedAppend(@, ImageBufferSize, ts)]

\* A combination takes one frame of every stream: c[s] is the place of the
\* frame in the queue of s.
Combinations(queues) ==
  {c \in [Streams -> 1 .. ImageBufferSize] : \A s \in Streams : c[s] <= Len(queues[s])}

Stamps(queues, c) == {queues[s][c[s]] : s \in Streams}
Spread(queues, c) == MaxOf(Stamps(queues, c)) - MinOf(Stamps(queues, c))
Representative(queues, c) == MaxOf(Stamps(queues, c))

Eligible(queues) ==
  {c \in Combinations(queues) : Spread(queues, c) <= SyncMatchingThreshold}

\* A search that takes any combination within the threshold.
BestCombinations_AnyEligible(queues) == Eligible(queues)

\* The combinations the search may return: those of the least spread and,
\* among them, of the earliest representative timestamp.
BestCombinations(queues) ==
  {c \in Eligible(queues) :
     \A d \in Eligible(queues) :
       \/ Spread(queues, c) < Spread(queues, d)
       \/ /\ Spread(queues, c) = Spread(queues, d)
          /\ Representative(queues, c) <= Representative(queues, d)}

\* The group of a combination, in the order of the streams, and the queues
\* once its frames are consumed.
GroupOf(queues, c) ==
  [k \in 1 .. (NumCameras + NumMasks) |-> <<k - 1, queues[k - 1][c[k - 1]]>>]

Consume(queues, c) == [s \in Streams |-> RemoveAt(queues[s], c[s])]

\* The sequencer: the samples of the buffer up to the timestamp rep, in
\* timestamp order, and those that stay.
RECURSIVE SortedInsert(_, _)
SortedInsert(seq, x) ==
  IF seq = << >> THEN <<x>>
  ELSE IF x < Head(seq) THEN <<x>> \o seq
  ELSE <<Head(seq)>> \o SortedInsert(Tail(seq), x)

RECURSIVE SortSeq(_)
SortSeq(seq) ==
  IF seq = << >> THEN << >>
  ELSE SortedInsert(SortSeq([j \in 1 .. (Len(seq) - 1) |-> seq[j]]), seq[Len(seq)])

\* A drain that hands over the whole buffer.
Drained_All(buffer, rep) == SortSeq(buffer)

Drained(buffer, rep) == SortSeq(SelectSeq(buffer, LAMBDA t : t <= rep))

Kept(buffer, rep) == SelectSeq(buffer, LAMBDA t : t > rep)

\* A sequencer that keeps every sample, however old.
AgedOut_Never(ts) == FALSE

\* A sample that arrives further behind the most recent batch than the jitter
\* threshold is dropped.
AgedOut(ts) ==
  sequencer_last_ts # NoTs /\ ts + ImuJitterThreshold < sequencer_last_ts

\* CallbackStream1: the sample enters the bounded buffer unless it is too old.
CallbackStream1(ts) ==
  IF AgedOut(ts)
  THEN /\ aged_out' = aged_out \cup {ts}
       /\ UNCHANGED <<sequencer_imu, sequencer_last_ts>>
  ELSE /\ sequencer_imu' = BoundedAppend(sequencer_imu, ImuBufferSize, ts)
       /\ UNCHANGED <<aged_out, sequencer_last_ts>>

\* CallbackStream2 (called at line 659) and the sink, UpdatePose: the samples
\* up to the representative timestamp are drained into the fused batch.
CallbackStream2(rep_ts, msgs) ==
  /\ sequencer_imu' = Kept(sequencer_imu, rep_ts)
  /\ sequencer_last_ts' = rep_ts
  /\ UNCHANGED aged_out
  /\ UpdatePoseStart(Drained(sequencer_imu, rep_ts), msgs, rep_ts)

\* CallbackSynchronizedImages (lines 656-660), called by the synchronizer
\* with a group of one frame per camera whose representative timestamp is
\* ts; frames reach the synchronizer only when the node is initialized.
CallbackSynchronizedImages(ts) ==
  /\ CallbackImageForwards
  /\ CallbackStream2(ts, GroupAt(ts))
  /\ UNCHANGED <<cfgVars, pcC, poseVars, sync_queues, initVars, zombie, saveVars,
                 engine_persist, ctxVars, composed, engine_localize, locCallVars,
                 localization_future_, handler_error>>

\* A CallbackImu that hands the sample to the sequencer whether or not the
\* node is initialized.
CallbackImuStamped_Ungated(ts) ==
  /\ IF IsInitialized
     THEN /\ CallbackStream1(ts)
          /\ UNCHANGED initial_imu_message
     ELSE /\ initial_imu_message' = TRUE
          /\ CallbackStream1(ts)
  /\ UNCHANGED <<cfgVars, pcC, poseVars, sync_queues, cuvslam_handle,
                 initial_camera_info_messages, tickVars, zombie,
                 saveVars, engine_persist, ctxVars, composed, engine_localize,
                 locCallVars, localization_future_, handler_error>>

\* CallbackImu (lines 622-631) with the sequencer: before initialization the
\* message is kept as the initial inertial message, afterwards it goes to the
\* sequencer with its timestamp.
CallbackImuStamped(ts) ==
  /\ IF IsInitialized
     THEN /\ CallbackStream1(ts)
          /\ UNCHANGED initial_imu_message
     ELSE /\ initial_imu_message' = TRUE
          /\ UNCHANGED <<sequencer_imu, sequencer_last_ts, aged_out>>
  /\ UNCHANGED <<cfgVars, pcC, poseVars, sync_queues, cuvslam_handle,
                 initial_camera_info_messages, tickVars, zombie,
                 saveVars, engine_persist, ctxVars, composed, engine_localize,
                 locCallVars, localization_future_, handler_error>>

\* AddMessage: the frame is inserted and the queues are searched; the
\* outcomes are the queues left and the group emitted (none, or one frame per
\* stream with its representative timestamp).
AddMessage(queues, index, ts) ==
  LET inserted == SyncInsert(queues, index, ts)
  IN  IF BestCombinations(inserted) = {}
      THEN {[queues |-> inserted, group |-> << >>, ts |-> NoTs]}
      ELSE {[queues |-> Consume(inserted, c),
             group  |-> GroupOf(inserted, c),
             ts     |-> Representative(inserted, c)] :
              c \in BestCombinations(inserted)}

\* CallbackImage (lines 633-642) with the synchronizer: an initialized node
\* hands the frame to AddMessage, which inserts it and searches; a group that
\* is found is consumed and goes, within the same call, through
\* CallbackSynchronizedImages (lines 656-660) to the sequencer and to
\* UpdatePose.  The callbacks are taken one at a time: a frame is delivered
\* when no tick is running.
CallbackImage(index, ts) ==
  /\ pcT = "idle"
  /\ IF ~CallbackImageForwards
     THEN UNCHANGED <<streamVars, tickVars>>
     ELSE \E out \in AddMessage(sync_queues, index, ts) :
            /\ sync_queues' = out.queues
            /\ IF out.group = << >>
               THEN UNCHANGED <<sequencer_imu, sequencer_last_ts, aged_out, tickVars>>
               ELSE CallbackStream2(out.ts, out.group)
  /\ UNCHANGED <<cfgVars, pcC, poseVars, initVars, zombie, saveVars, engine_persist,
                 ctxVars, composed, engine_localize, locCallVars,
                 localization_future_, handler_error>>

\* The groups a synchronizer can emit when not every stream is required: a
\* frame of some of the streams, at most one of each, in any order, each with
\* its timestamp.
Groups ==
  UNION {{g \in [1 .. n -> Streams \X Timestamps] :
            \A j, k \in 1 .. n : j # k => g[j][1] # g[k][1]} :
         n \in 1 .. Cardinality(Streams)}

\* CallbackSynchronizedImages (lines 656-660) called with the group msgs and
\* its latest timestamp, without inertial fusion: the tick starts with an
\* empty batch.
CallbackSynchronizedGroup(msgs) ==
  /\ CallbackImageForwards
  /\ UpdatePoseStart(<< >>, msgs, LatestTs(msgs))
  /\ UNCHANGED <<cfgVars, pcC, streamVars, poseVars, initVars, zombie, saveVars,
                 engine_persist, ctxVars, composed, engine_localize, locCallVars,
                 localization_future_, handler_error>>

(***************************************************************************)
(* The specification.                                                      *)
(***************************************************************************)
\* The state after construction (lines 113-151), for a configuration chosen
\* by the specification.
Constructed ==
  /\ cuvslam_handle = "null"
  /\ pcC = [index \in Cameras |-> "idle"]
  /\ initial_camera_info_messages = {}
  /\ initial_imu_message = FALSE
  /\ pcT = "idle"
  /\ imu_msgs = << >>
  /\ imu_i = 1
  /\ engine_calls = << >>
  /\ imu_failed = FALSE
  /\ vo_status = "none"
  /\ poll_outcome = "none"
  /\ latest_ts = NoTs
  /\ published = {}
  /\ odom = "none"
  /\ covariance_reports = "none"
  /\ sync_latest_ts = NoTs
  /\ idx_and_image_msgs = << >>
  /\ cuvslam_images = << >>
  /\ last_track_ts = NoTs
  /\ pose_cache = << >>
  /\ sync_queues = [s \in Streams |-> << >>]
  /\ sequencer_imu = << >>
  /\ sequencer_last_ts = NoTs
  /\ aged_out = {}
  /\ zombie = FALSE
  /\ pcS = "idle"
  /\ save_promise = "none"
  /\ save_call_result = "none"
  /\ save_status = "none"
  /\ save_waited = FALSE
  /\ save_handler = "none"
  /\ save_torn_down = FALSE
  /\ engine_persist = FALSE
  /\ ctxGen = 0
  /\ promise = [g \in Gens |-> IF g = 0 THEN "unset" ELSE "none"]
  /\ composed = [g \in Gens |-> "none"]
  /\ engine_localize = {}
  /\ pcL = [c \in LocCallers |-> "idle"]
  /\ genL = [c \in LocCallers |-> 0]
  /\ pre_unmet = [c \in LocCallers |-> FALSE]
  /\ engine_called = [c \in LocCallers |-> FALSE]
  /\ accepted = [c \in LocCallers |-> FALSE]
  /\ loc_result = [c \in LocCallers |-> "none"]
  /\ localization_future_ = 0
  /\ handler_error = FALSE

\* Spec: the localize command with both callers, the poll, Exit and
\* re-initialization (the camera infos arriving in the order of their
\* indices), and ticks without inertial samples whose track call reports an
\* error.
Init ==
  /\ publish_tf = TRUE
  /\ has_subscribers = TRUE
  /\ enable_localization_n_mapping \in BOOLEAN
  /\ enable_imu_fusion = FALSE
  /\ localize_on_startup \in BOOLEAN
  /\ Constructed

Next ==
  \/ \E index \in Cameras, ok \in BOOLEAN :
       /\ index = Cardinality(initial_camera_info_messages) % NumCameras
       /\ CallbackCameraInfo(index, ok)
  \/ TickStart(<< >>, 1)
  \/ UpdatePose_Poll
  \/ UpdatePose_Track
  \/ UpdatePose_TrackReturn(CUVSLAM_GENERIC_ERROR, TRUE, CUVSLAM_SUCCESS)
  \/ Exit
  \/ \E c \in LocCallers, tf_ok \in BOOLEAN, old \in {"unset", "broken"} :
       LocalizeInMapAsync_Start(c, tf_ok, old)
  \/ \E c \in LocCallers, kind \in PathKinds, call_result \in EngineStatus,
        cb \in BOOLEAN : CuvslamInternalLocalizeInMapAsync_Body(c, kind, call_result, cb)
  \/ \E req \in engine_localize, status \in EngineStatus :
       EngineCompletesLocalize(req, status)
  \/ \E g \in Gens : Continuation(g)
  \/ StoreLocalizationFuture
  \/ LocalizeInMap_Get
  \/ \E c \in LocCallers : Localize_End(c)

Spec == Init /\ [][Next]_vars

\* SpecLocalize: Spec without Exit: the tracker, once created, stays, and every
\* request the engine accepted stays with it until the engine completes it.
NextLocalize ==
  \/ \E index \in Cameras, ok \in BOOLEAN :
       /\ index = Cardinality(initial_camera_info_messages) % NumCameras
       /\ CallbackCameraInfo(index, ok)
  \/ TickStart(<< >>, 1)
  \/ UpdatePose_Poll
  \/ UpdatePose_Track
  \/ UpdatePose_TrackReturn(CUVSLAM_GENERIC_ERROR, TRUE, CUVSLAM_SUCCESS)
  \/ \E c \in LocCallers, tf_ok \in BOOLEAN, old \in {"unset", "broken"} :
       LocalizeInMapAsync_Start(c, tf_ok, old)
  \/ \E c \in LocCallers, kind \in PathKinds, call_result \in EngineStatus,
        cb \in BOOLEAN : CuvslamInternalLocalizeInMapAsync_Body(c, kind, call_result, cb)
  \/ \E req \in engine_localize, status \in EngineStatus :
       EngineCompletesLocalize(req, status)
  \/ \E g \in Gens : Continuation(g)
  \/ StoreLocalizationFuture
  \/ LocalizeInMap_Get
  \/ \E c \in LocCallers : Localize_End(c)

SpecLocalize == Init /\ [][NextLocalize]_vars

\* SpecPersist: the persist command, Exit and re-initialization, and ticks
\* without inertial samples.
InitPersist ==
  /\ publish_tf = TRUE
  /\ has_subscribers = TRUE
  /\ enable_localization_n_mapping \in BOOLEAN
  /\ enable_imu_fusion \in BOOLEAN
  /\ localize_on_startup = FALSE
  /\ Constructed

NextPersist ==
  \/ \E index \in Cameras, ok \in BOOLEAN : CallbackCameraInfo(index, ok)
  \/ CallbackImu
  \/ TickStart(<< >>, 1)
  \/ UpdatePose_Poll
  \/ UpdatePose_Track
  \/ \E status \in TrackStatus, ground_ok \in BOOLEAN, slam_pose_status \in EngineStatus :
       UpdatePose_TrackReturn(status, ground_ok, slam_pose_status)
  \/ UpdatePose_Finish
  \/ SaveMap_Start
  \/ \E call_result \in EngineStatus : SaveMap_Call(call_result)
  \/ SaveMap_Get
  \/ SaveMap_Return
  \/ \E status \in EngineStatus : EngineCompletesPersist(status)
  \/ Exit

SpecPersist == InitPersist /\ [][NextPersist]_vars

\* SpecPose: the ticks and what they leave behind, without commands: frames
\* with any timestamp, every outcome of the track call, of the ground
\* constraint and of the SLAM pose query, for every setting of the outputs.
InitPose ==
  /\ enable_localization_n_mapping \in BOOLEAN
  /\ enable_imu_fusion = FALSE
  /\ localize_on_startup = FALSE
  /\ publish_tf \in BOOLEAN
  /\ has_subscribers \in BOOLEAN
  /\ Constructed

NextPose ==
  \/ \E index \in Cameras, ok \in BOOLEAN :
       /\ index = Cardinality(initial_camera_info_messages) % NumCameras
       /\ CallbackCameraInfo(index, ok)
  \/ CallbackImu
  \/ \E ts \in Timestamps : TickStart(<< >>, ts)
  \/ UpdatePose_Poll
  \/ UpdatePose_Track
  \/ \E status \in TrackStatus, ground_ok \in BOOLEAN, slam_pose_status \in EngineStatus :
       UpdatePose_TrackReturn(status, ground_ok, slam_pose_status)
  \/ UpdatePose_Finish

SpecPose == InitPose /\ [][NextPose]_vars

\* SpecSync: the frames on their way to the tick, without inertial fusion: a
\* frame of any stream arrives with any timestamp, in any order; the tick a
\* group starts ends with an error of the track call or goes on to publish.
InitSync ==
  /\ publish_tf = TRUE
  /\ has_subscribers = TRUE
  /\ enable_localization_n_mapping = FALSE
  /\ enable_imu_fusion = FALSE
  /\ localize_on_startup = FALSE
  /\ Constructed

NextSync ==
  \/ \E index \in Cameras, ok \in BOOLEAN :
       /\ index = Cardinality(initial_camera_info_messages) % NumCameras
       /\ CallbackCameraInfo(index, ok)
  \/ \E index \in Streams, ts \in Timestamps : CallbackImage(index, ts)
  \/ UpdatePose_Poll
  \/ UpdatePose_Track
  \/ UpdatePose_TrackReturn(CUVSLAM_GENERIC_ERROR, TRUE, CUVSLAM_SUCCESS)

SpecSync == InitSync /\ [][NextSync]_vars

\* SpecSequencer: the inertial samples on their way to the tick: a sample
\* arrives with any timestamp, the synchronizer emits groups of one frame per
\* camera with any representative timestamp, and the tick registers the
\* samples of its batch and ends with an error of the track call.
InitSequencer ==
  /\ publish_tf = TRUE
  /\ has_subscribers = TRUE
  /\ enable_localization_n_mapping = FALSE
  /\ enable_imu_fusion = TRUE
  /\ localize_on_startup = FALSE
  /\ Constructed

NextSequencer ==
  \/ \E index \in Cameras, ok \in BOOLEAN :
       /\ index = Cardinality(initial_camera_info_messages) % NumCameras
       /\ CallbackCameraInfo(index, ok)
  \/ \E ts \in ImuTimestamps : CallbackImuStamped(ts)
  \/ \E ts \in ImuTimestamps : CallbackSynchronizedImages(ts)
  \/ UpdatePose_Poll
  \/ UpdatePose_RegisterImu(CUVSLAM_SUCCESS)
  \/ UpdatePose_Track
  \/ UpdatePose_TrackReturn(CUVSLAM_GENERIC_ERROR, TRUE, CUVSLAM_SUCCESS)

SpecSequencer == InitSequencer /\ [][NextSequencer]_vars

\* SpecGroup: the frames of a tick, without inertial fusion: the
\* synchronizer emits any group of frames of distinct streams, with or
\* without the mask, in any order; the tick ends with an error of the track
\* call.
InitGroup ==
  /\ publish_tf = TRUE
  /\ has_subscribers = TRUE
  /\ enable_localization_n_mapping = FALSE
  /\ enable_imu_fusion = FALSE
  /\ localize_on_startup = FALSE
  /\ Constructed

NextGroup ==
  \/ \E index \in Cameras, ok \in BOOLEAN :
       /\ index = Cardinality(initial_camera_info_messages) % NumCameras
       /\ CallbackCameraInfo(index, ok)
  \/ \E msgs \in Groups : CallbackSynchronizedGroup(msgs)
  \/ UpdatePose_Poll
  \/ UpdatePose_Track
  \/ UpdatePose_TrackReturn(CUVSLAM_GENERIC_ERROR, TRUE, CUVSLAM_SUCCESS)

SpecGroup == InitGroup /\ [][NextGroup]_vars

\* SpecIngress: the callbacks of the sensors before and after initialization
\* and across Exit, taken one at a time (none while a tick is running):
\* camera infos of any camera in any order, and Exit.  To keep the
\* synchronizer and the sequencer apart, a run without inertial fusion has
\* the frames of the cameras, with any timestamp (no mask frame arrives, so
\* no group forms), and a run with inertial fusion has the inertial samples,
\* with any timestamp, and groups of one frame per camera that start ticks;
\* a tick registers its batch and ends with an error of the track call.
InitIngress ==
  /\ publish_tf = TRUE
  /\ has_subscribers = TRUE
  /\ enable_localization_n_mapping = FALSE
  /\ enable_imu_fusion \in BOOLEAN
  /\ localize_on_startup = FALSE
  /\ Constructed

NextIngress ==
  \/ \E index \in Cameras, ok \in BOOLEAN :
       pcT = "idle" /\ CallbackCameraInfo(index, ok)
  \/ \E index \in Cameras, ts \in Timestamps :
       ~enable_imu_fusion /\ CallbackImage(index, ts)
  \/ \E ts \in Timestamps :
       enable_imu_fusion /\ pcT = "idle" /\ CallbackImuStamped(ts)
  \/ \E ts \in Timestamps :
       enable_imu_fusion /\ CallbackSynchronizedImages(ts)
  \/ UpdatePose_Poll
  \/ UpdatePose_RegisterImu(CUVSLAM_SUCCESS)
  \/ UpdatePose_Track
  \/ UpdatePose_TrackReturn(CUVSLAM_GENERIC_ERROR, TRUE, CUVSLAM_SUCCESS)
  \/ pcT = "idle" /\ Exit

SpecIngress == InitIngress /\ [][NextIngress]_vars

\* SpecInit: initialization with the camera-info callbacks of the cameras on
\* threads of their own, interleaved step by step with each other and with
\* the inertial callback; the construction of the engine succeeds or fails.
InitInit ==
  /\ publish_tf = TRUE
  /\ has_subscribers = TRUE
  /\ enable_localization_n_mapping = FALSE
  /\ enable_imu_fusion \in BOOLEAN
  /\ localize_on_startup = FALSE
  /\ Constructed

NextInit ==
  \/ \E index \in Cameras : CameraInfoEnter(index)
  \/ \E index \in Cameras, stored \in BOOLEAN : CameraInfoStore(index, stored)
  \/ \E index \in Cameras : CameraInfoCheck(index)
  \/ \E index \in Cameras : InitializeEnter(index)
  \/ \E index \in Cameras, ok \in BOOLEAN : InitializeCreate(index, ok)
  \/ \E index \in Cameras : InitializeAssign(index)
  \/ CallbackImu

SpecInit == InitInit /\ [][NextInit]_vars

\* FairPersist: the persist command of a caller on a thread of its own, with
\* mapping enabled and ticks without inertial samples, while the node is not
\* torn down.
\* The caller's thread runs (a SaveMap that can go on goes on), frames keep
\* arriving and the tracking thread keeps running (a tick that can start or
\* go on does), and the engine completes an accepted request during one of
\* the track calls that keep occurring.  As in SpecTick, a pose the engine
\* returns fails the ground constraint.
InitFairPersist ==
  /\ publish_tf = TRUE
  /\ has_subscribers = TRUE
  /\ enable_localization_n_mapping = TRUE
  /\ enable_imu_fusion \in BOOLEAN
  /\ localize_on_startup = FALSE
  /\ Constructed

NextFairPersist ==
  \/ \E index \in Cameras, ok \in BOOLEAN : CallbackCameraInfo(index, ok)
  \/ CallbackImu
  \/ TickStart(<< >>, 1)
  \/ UpdatePose_Poll
  \/ UpdatePose_Track
  \/ \E status \in TrackStatus :
       UpdatePose_TrackReturn(status, status # CUVSLAM_SUCCESS, CUVSLAM_SUCCESS)
  \/ UpdatePose_Finish
  \/ SaveMap_Start
  \/ \E call_result \in EngineStatus : SaveMap_Call(call_result)
  \/ SaveMap_Get
  \/ SaveMap_Return
  \/ \E status \in EngineStatus : EngineCompletesPersist(status)

FairPersist ==
  /\ InitFairPersist /\ [][NextFairPersist]_vars
  /\ WF_vars(TickStart(<< >>, 1))
  /\ WF_vars(UpdatePose_Poll)
  /\ WF_vars(UpdatePose_Track)
  /\ WF_vars(\E status \in TrackStatus :
               UpdatePose_TrackReturn(status, status # CUVSLAM_SUCCESS, CUVSLAM_SUCCESS))
  /\ WF_vars(UpdatePose_Finish)
  /\ WF_vars(SaveMap_Get)
  /\ SF_vars(\E status \in EngineStatus : EngineCompletesPersist(status))

\* SpecTick: the tick with its inertial batches, while a persist command and
\* the service handler's localize commands (with a pose hint that converts)
\* come and go.  The track call reports success, tracking lost or an error;
\* the frames carry one timestamp and a pose the engine returns fails the
\* ground constraint, so that the pose cache stays as it is (SpecPose has the
\* ticks that publish).
InitTick ==
  /\ publish_tf = TRUE
  /\ has_subscribers = TRUE
  /\ enable_localization_n_mapping = TRUE
  /\ enable_imu_fusion = TRUE
  /\ localize_on_startup = FALSE
  /\ Constructed

NextTick ==
  \/ \E index \in Cameras, ok \in BOOLEAN : CallbackCameraInfo(index, ok)
  \/ CallbackImu
  \/ \E batch \in Batches : TickStart(batch, 1)
  \/ UpdatePose_Poll
  \/ \E status \in EngineStatus : UpdatePose_RegisterImu(status)
  \/ UpdatePose_Track
  \/ \E status \in TrackStatus :
       UpdatePose_TrackReturn(status, status # CUVSLAM_SUCCESS, CUVSLAM_SUCCESS)
  \/ UpdatePose_Finish
  \/ SaveMap_Start
  \/ \E call_result \in EngineStatus : SaveMap_Call(call_result)
  \/ SaveMap_Get
  \/ SaveMap_Return
  \/ \E status \in EngineStatus : EngineCompletesPersist(status)
  \/ \E old \in {"unset", "broken"} :
       LocalizeInMapAsync_Start("service", TRUE, old)
  \/ \E kind \in PathKinds, call_result \in EngineStatus, cb \in BOOLEAN :
       CuvslamInternalLocalizeInMapAsync_Body("service", kind, call_result, cb)
  \/ \E req \in engine_localize, status \in EngineStatus :
       EngineCompletesLocalize(req, status)
  \/ \E g \in Gens : Continuation(g)
  \/ StoreLocalizationFuture

SpecTick == InitTick /\ [][NextTick]_vars

\* FairTick: SpecTick where the tracking thread, once inside UpdatePose, keeps
\* running: every engine call it makes returns, and a step of the tick that
\* can be taken is taken.  No fairness is assumed of the callers of the
\* commands, of the engine's completions or of the continuation.
FairTick ==
  /\ SpecTick
  /\ WF_vars(UpdatePose_Poll)
  /\ WF_vars(\E status \in EngineStatus : UpdatePose_RegisterImu(status))
  /\ WF_vars(UpdatePose_Track)
  /\ WF_vars(\E status \in TrackStatus :
               UpdatePose_TrackReturn(status, status # CUVSLAM_SUCCESS, CUVSLAM_SUCCESS))
  /\ WF_vars(UpdatePose_Finish)

(***************************************************************************)
(* The tick and its poll (SpecTick, FairTick).                             *)
(***************************************************************************)
\* A step of the tick that runs CheckLocalizationStatus.
PollStep == pcT = "poll" /\ pcT' = "imu"

\* C1: the poll never waits (it can always be taken where the tick reaches
\* it); with nothing stored, or a stored future that is not ready, it leaves
\* the slot and the future as they are; with a ready future it takes the
\* result, whether a value or an exception, and leaves the slot empty.
C1_PollNeverWaitsAndClearsWhenReady ==
  /\ [](pcT = "poll" => ENABLED UpdatePose_Poll)
  /\ [][PollStep =>
         IF localization_future_ = 0 \/ ~ComposedReady(localization_future_)
         THEN /\ localization_future_' = localization_future_
              /\ composed' = composed
              /\ poll_outcome' \in {"empty", "not_ready"}
         ELSE /\ localization_future_' = 0
              /\ composed'[localization_future_] = "none"
              /\ poll_outcome' = composed[localization_future_]]_vars

\* The poll found a ready future whose get() threw, and emptied the slot.
C1_Witness ==
  /\ pcT = "imu"
  /\ poll_outcome = "exception"
  /\ localization_future_ = 0

\* The engine calls and the poll a tick has made up to its n-th sample.
RECURSIVE Registered(_)
Registered(n) ==
  IF n = 0 THEN <<<<"Poll", 0>>>>
  ELSE Append(Registered(n - 1), <<"RegisterImu", imu_msgs[n]>>)

PendingPersist == pcS = "wait" /\ save_promise = "unset"
PendingLocalize ==
  localization_future_ # 0 /\ composed[localization_future_] = "pending"

\* C2: a tick that has reached the track call has made exactly one
\* command-related operation, the poll, as its first operation; and a tick
\* that has started always runs to its end, whatever commands are pending.
C2_OnePollThenTickCompletes ==
  /\ [](pcT \in {"imu", "intrack", "post"} =>
         /\ Head(engine_calls) = <<"Poll", 0>>
         /\ Len(SelectSeq(engine_calls, LAMBDA e : e[1] = "Poll")) = 1)
  /\ (pcT # "idle") ~> (pcT = "idle")

\* A tick is past its track call while a persist command and a localize
\* command are both pending.
C2_Witness ==
  /\ pcT = "post"
  /\ PendingPersist
  /\ PendingLocalize
  /\ Head(engine_calls) = <<"Poll", 0>>

\* C3: the tick registers each inertial sample of the batch once, in batch
\* order, and makes the track call once, after all of them, also when a
\* registration failed.
C3_ImuRegisteredInOrderThenOneTrack ==
  /\ pcT = "imu" => engine_calls = Registered(imu_i - 1)
  /\ pcT \in {"intrack", "post"} =>
       engine_calls = Append(Registered(Len(imu_msgs)), <<"Track", 0>>)

C3_Witness ==
  /\ pcT = "post"
  /\ imu_failed
  /\ imu_msgs = <<1, 2>>
  /\ engine_calls = <<<<"Poll", 0>>, <<"RegisterImu", 1>>, <<"RegisterImu", 2>>,
                      <<"Track", 0>>>>

(***************************************************************************)
(* The persist command (SpecPersist).                                      *)
(***************************************************************************)
FailureStatus ==
  {CUVSLAM_GENERIC_ERROR, CUVSLAM_CAN_NOT_LOCALIZE, CUVSLAM_SLAM_IS_NOT_INITIALIZED,
   CUVSLAM_TRACKING_LOST}

\* C4: when CUVSLAM_SaveToSlamDb reports a failure, SaveMap is returning that
\* very status, it has not waited on the response future, and the completion
\* handler has not been invoked for the request.
C4_SyncFailureReturnsAtOnce ==
  save_call_result \in FailureStatus =>
    /\ pcS = "ret"
    /\ save_status = save_call_result
    /\ ~save_waited
    /\ save_handler = "none"
    /\ ~engine_persist

C4_Witness ==
  /\ save_call_result = CUVSLAM_GENERIC_ERROR
  /\ pcS = "ret"
  /\ save_status = CUVSLAM_GENERIC_ERROR

\* C5: when the engine accepted the request, SaveMap returns only after the
\* completion handler was invoked, and with the status the handler delivered.
C5_AcceptedReturnsHandlerStatus ==
  (pcS = "ret" /\ save_call_result = CUVSLAM_SUCCESS) =>
    /\ save_handler # "none"
    /\ save_status = save_handler
    /\ save_waited

C5_Witness ==
  /\ pcS = "ret"
  /\ save_call_result = CUVSLAM_SUCCESS
  /\ save_handler = CUVSLAM_GENERIC_ERROR
  /\ save_status = CUVSLAM_GENERIC_ERROR

\* C6: once Exit has completed while SaveMap was blocked on a request the
\* engine had accepted and not completed, the caller is not left blocked for
\* ever: its promise holds a result, or the request is still with an engine
\* call that can complete it.
C6_TeardownUnblocksSaveMap ==
  (save_torn_down /\ pcS = "wait") => (save_promise # "unset" \/ engine_persist)

\* C10: with localization-and-mapping disabled SaveMap never reaches the
\* engine call or the wait, and what it returns is
\* CUVSLAM_SLAM_IS_NOT_INITIALIZED.
C10_DisabledSaveMapFailsFast ==
  ~enable_localization_n_mapping =>
    /\ pcS \in {"idle", "ret"}
    /\ pcS = "ret" => save_status = CUVSLAM_SLAM_IS_NOT_INITIALIZED
    /\ save_call_result = "none"
    /\ ~save_waited
    /\ ~engine_persist

C10_Witness ==
  /\ ~enable_localization_n_mapping
  /\ IsInitialized
  /\ pcS = "ret"
  /\ save_status = CUVSLAM_SLAM_IS_NOT_INITIALIZED

(***************************************************************************)
(* The localize command and teardown (Spec).                               *)
(***************************************************************************)
\* A step of Exit on a live tracker.
ExitStep == IsInitialized /\ ~IsInitialized'

\* The command of the member context has been created and holds no result.
Unresolved == ctxGen # 0 /\ promise[ctxGen] = "unset"

C8_CallbackAfterExitIsNoOp ==
  [][promise[ctxGen] = CUVSLAM_CAN_NOT_LOCALIZE =>
       /\ ~handler_error => ~handler_error'
       /\ \A c \in LocCallers : pcL[c] = "pre" => pcL'[c] # "threw"]_vars

\* C9: a localize call that found a precondition unmet has returned a future
\* that is resolved with a failure status, and has not called the engine.
C9_UnmetPreconditionFailsFast ==
  \A c \in LocCallers :
    (pcL[c] \in {"store", "get"} /\ pre_unmet[c]) =>
      /\ promise[genL[c]] \in FailureStatus
      /\ ~engine_called[c]

\* The step in which caller c returns from CuvslamInternalLocalizeInMapAsync
\* with the future of its command.
LocalizeReturns(c) == pcL[c] = "pre" /\ pcL'[c] = Returned(c)

\* The engine call of caller c's command was made in this step and reported a
\* failure: the call was made and the command is not among the requests the
\* engine accepted.
SyncFailure(c) ==
  /\ LocalizeReturns(c)
  /\ engine_called'[c]
  /\ <<genL[c], TRUE>> \notin engine_localize'

\* C11: when the preconditions hold and CUVSLAM_LocalizeInExistDb reports a
\* failure, the future the call returns is already resolved with a failure
\* status, without any callback having to arrive.
C11_SyncFailureResolvesFuture ==
  [][\A c \in LocCallers :
       SyncFailure(c) => promise'[genL[c]] \in FailureStatus]_vars

\* Localize command g is Pending: the engine accepted its request and has not
\* completed it, and the promise behind its future holds no result.
PendingCommand(g) == <<g, TRUE>> \in engine_localize /\ promise[g] = "unset"

PendingCommands == {g \in Gens : PendingCommand(g)}

\* C12: at most one localize command is Pending at any time, whichever
\* threads issue the commands.  (Of the persist kind a run of the model has
\* one caller, hence one command.)
C12_AtMostOnePending == Cardinality(PendingCommands) <= 1

\* The engine invokes the completion handler for the request of command g.
CompletionOf(g) ==
  /\ pcT = "intrack"
  /\ <<g, TRUE>> \in engine_localize
  /\ engine_localize' = engine_localize \ {<<g, TRUE>>}

\* Command g was Pending when a second command was started: the service
\* handler had issued g and stored its future, g never received a result, and
\* the member context now belongs to the service handler's next command.
SupersededWhilePending(g) ==
  /\ g # 0 /\ g < ctxGen
  /\ <<g, TRUE>> \in engine_localize
  /\ promise[g] \in {"unset", "broken"}
  /\ localization_future_ = g
  /\ genL["service"] = ctxGen

\* C13: the completion callback of a command that was superseded while
\* Pending is a no-op: it leaves the promise of the second command, and with
\* it the result the second command delivers, as it was.
C13_StaleCallbackIsNoOp ==
  [][\A g \in Gens :
       (SupersededWhilePending(g) /\ CompletionOf(g)) =>
         promise'[ctxGen] = promise[ctxGen]]_vars

\* Caller c waits in LocalizeInMap on the future of a command the engine
\* accepted and a later command has superseded; the promise behind it holds
\* nothing, no localize call is under way, and the engine has completed every
\* request it accepted.  Completions resolve the promise of the member
\* context only, so the wait never ends.
BlockedForEver(c) ==
  /\ pcL[c] = "get"
  /\ accepted[c]
  /\ genL[c] < ctxGen
  /\ promise[genL[c]] = "unset"
  /\ \A d \in LocCallers : pcL[d] \notin {"start", "pre"}
  /\ engine_localize = {}

\* C14: a second localize command started while a first is Pending does not
\* deadlock: a call that has replaced the context goes on to return its
\* future without waiting for anything, and once the engine has delivered its
\* completions no caller is left blocked for ever on its command's future.
C14_SecondLocalizeDoesNotDeadlock ==
  /\ \A c \in LocCallers :
       pcL[c] = "pre" =>
         ENABLED (\E kind \in PathKinds, call_result \in EngineStatus, cb \in BOOLEAN :
                    CuvslamInternalLocalizeInMapAsync_Body(c, kind, call_result, cb))
  /\ \A c \in LocCallers : ~BlockedForEver(c)

\* C15: no call of a maintenance command ends by throwing to its caller:
\* neither LocalizeInMapAsync nor LocalizeInMap leaves through an exception,
\* also when the transform lookup for the pose hint fails.  (SaveMap has no
\* throwing path in the model: every way out of it is a returned status.)
C15_CommandsNeverThrow == \A c \in LocCallers : pcL[c] # "threw"

(***************************************************************************)
(* The ticks and what they leave behind (SpecPose).                        *)
(***************************************************************************)
\* The tick in which the track call reported tracking lost has run to line
\* 992.
LostTickDone == pcT = "post" /\ vo_status = CUVSLAM_TRACKING_LOST

\* C16: when the track call reports tracking lost the tick is not cut short
\* (it goes on to its end whatever the other inputs), and at its end the pose
\* cache is empty, no transform, pose, odometry or path has been sent, the
\* status and the diagnostics have been sent to their subscribers and
\* last_track_ts is the tick's timestamp; the tick then returns and the next
\* batch starts a tick as usual.
C16_TrackingLostResetsAndGoesOn ==
  /\ pcT = "intrack" =>
       ENABLED (/\ UpdatePose_TrackReturn(CUVSLAM_TRACKING_LOST, TRUE, CUVSLAM_SUCCESS)
                /\ pcT' = "post")
  /\ LostTickDone =>
       /\ pose_cache = << >>
       /\ published \cap PoseOutputs = {}
       /\ has_subscribers => StatusOutputs \subseteq published
       /\ last_track_ts = latest_ts
       /\ ENABLED UpdatePose_Finish
  /\ (pcT = "idle" /\ IsInitialized) =>
       \A ts \in Timestamps : ENABLED TickStart(<< >>, ts)

\* A tick that lost tracking is at its end: the status went out, no pose.
C16_Witness ==
  /\ LostTickDone
  /\ latest_ts = 2
  /\ last_track_ts = 2
  /\ has_subscribers /\ publish_tf
  /\ published = StatusOutputs
  /\ pose_cache = << >>

\* Every engine call of the tick succeeds: the track call, the ground
\* constraint and the SLAM pose query.
AllSucceed(status, ground_ok, slam_pose_status) ==
  status = CUVSLAM_SUCCESS /\ ground_ok /\ slam_pose_status = CUVSLAM_SUCCESS

\* The pose outputs the configuration asks for.
PoseOutputsAsked ==
  (IF publish_tf THEN {"tf"} ELSE {})
    \cup (IF has_subscribers THEN PoseOutputs \ {"tf"} ELSE {})

\* C17: whatever ticks came before, a tick in which the track call, the
\* ground constraint or the SLAM pose query fails sends no pose output and
\* adds no sample to the pose cache, and a tick in which they all succeed
\* sends the pose outputs its configuration asks for.
C17_FailedTickWithholdsOnlyItsOwnPose ==
  pcT = "intrack" =>
    \A status \in TrackStatus, ground_ok \in BOOLEAN, slam_pose_status \in EngineStatus :
      TrackInputs(status, ground_ok, slam_pose_status) =>
        IF AllSucceed(status, ground_ok, slam_pose_status)
        THEN ENABLED (/\ UpdatePose_TrackReturn(status, ground_ok, slam_pose_status)
                      /\ pcT' = "post"
                      /\ published' \cap PoseOutputs = PoseOutputsAsked)
        ELSE ENABLED (/\ UpdatePose_TrackReturn(status, ground_ok, slam_pose_status)
                      /\ published' \cap PoseOutputs = {}
                      /\ pose_cache' \in {pose_cache, << >>})

\* A tick is in its track call after a tick that lost tracking and left the
\* pose cache empty.
C17_Witness ==
  /\ pcT = "intrack"
  /\ last_track_ts = 1
  /\ pose_cache = << >>
  /\ latest_ts = 2
  /\ enable_localization_n_mapping
  /\ has_subscribers

\* C18 as stated: a tick whose track call returns success adds exactly one
\* sample, stamped with the tick's timestamp, to the pose cache, whatever the
\* ground constraint and the SLAM pose query report; every other tick adds
\* none.
C18_SuccessfulTrackAddsOneSample ==
  pcT = "intrack" =>
    \A status \in TrackStatus, ground_ok \in BOOLEAN, slam_pose_status \in EngineStatus :
      TrackInputs(status, ground_ok, slam_pose_status) =>
        IF status = CUVSLAM_SUCCESS
        THEN ENABLED (/\ UpdatePose_TrackReturn(status, ground_ok, slam_pose_status)
                      /\ pose_cache' = PoseCacheAdd(pose_cache, latest_ts))
        ELSE ENABLED (/\ UpdatePose_TrackReturn(status, ground_ok, slam_pose_status)
                      /\ pose_cache' \in {pose_cache, << >>})

\* C18, amended: a tick in which the track call, the ground constraint and
\* the SLAM pose query all succeed adds exactly one sample, stamped with the
\* tick's timestamp, to the pose cache; every other tick adds none.
C18_SuccessfulTickAddsOneSample ==
  pcT = "intrack" =>
    \A status \in TrackStatus, ground_ok \in BOOLEAN, slam_pose_status \in EngineStatus :
      TrackInputs(status, ground_ok, slam_pose_status) =>
        IF AllSucceed(status, ground_ok, slam_pose_status)
        THEN ENABLED (/\ UpdatePose_TrackReturn(status, ground_ok, slam_pose_status)
                      /\ pose_cache' = PoseCacheAdd(pose_cache, latest_ts))
        ELSE ENABLED (/\ UpdatePose_TrackReturn(status, ground_ok, slam_pose_status)
                      /\ pose_cache' \in {pose_cache, << >>})

\* Two ticks have succeeded in a row: the cache holds one sample of each, in
\* order, the newer stamped with the timestamp of the tick that is ending.
C18_Witness ==
  /\ pcT = "post"
  /\ vo_status = CUVSLAM_SUCCESS
  /\ latest_ts = 2
  /\ pose_cache = <<1, 2>>


(***************************************************************************)
(* Failed engine construction (SpecPose).                                  *)
(***************************************************************************)
\* Initialize is called by the camera info with this index: the messages of
\* all cameras are then present.
InitializeCalledBy(index) ==
  /\ ~IsInitialized
  /\ IsReadyForInitializationWith(initial_camera_info_messages \cup {index})

\* C20: when the construction of the engine fails in Initialize, the handle
\* stays absent, and while the handle is absent nothing goes downstream: no
\* tick is running and none can start (no frame is handed to the
\* synchronizer), an inertial sample is only kept as the initial inertial
\* message and leaves the tick alone, and the engine has not been called.
C20_FailedConstructionHaltsDownstream ==
  ~IsInitialized =>
    /\ pcT = "idle"
    /\ engine_calls = << >>
    /\ ~ENABLED (\E ts \in Timestamps : TickStart(<< >>, ts))
    /\ ENABLED (CallbackImu /\ initial_imu_message' /\ UNCHANGED tickVars)
    /\ \A index \in Cameras :
         InitializeCalledBy(index) =>
           /\ ENABLED (CallbackCameraInfo(index, FALSE) /\ ~IsInitialized')
           /\ ~ENABLED (CallbackCameraInfo(index, FALSE) /\ IsInitialized')

\* Initialize has been called and the construction has failed: the camera
\* infos of all cameras are stored, which without inertial fusion is when
\* Initialize is called, and there is no handle; frames and inertial samples
\* that arrive now start nothing.
C20_Witness ==
  /\ ~enable_imu_fusion
  /\ Cardinality(initial_camera_info_messages) = NumCameras
  /\ ~IsInitialized
  /\ initial_imu_message
  /\ ~ENABLED (\E ts \in Timestamps : TickStart(<< >>, ts))


(***************************************************************************)
(* Readiness for initialization (SpecPersist).                             *)
(***************************************************************************)
\* A message of every sensor has been received: a camera info of every camera
\* and, with inertial fusion, an inertial message.
EverySensorHeard(msgs) ==
  /\ msgs = Cameras
  /\ enable_imu_fusion => initial_imu_message

\* C21: an engine exists only when a camera info of every camera and, with
\* inertial fusion, an inertial message have been received since construction
\* or the last Exit; and a camera info that leaves a sensor unheard creates no
\* engine, even when the construction would succeed.
C21_InitializeNeedsEverySensor ==
  /\ IsInitialized => EverySensorHeard(initial_camera_info_messages)
  /\ \A index \in Cameras :
       (~IsInitialized
          /\ ~EverySensorHeard(initial_camera_info_messages \cup {index}))
         => /\ ENABLED (CallbackCameraInfo(index, TRUE) /\ ~IsInitialized')
            /\ ~ENABLED (CallbackCameraInfo(index, TRUE) /\ IsInitialized')

\* With inertial fusion the engine has been created: Initialize was triggered
\* by a camera info that found every camera and the inertial sensor heard.
C21_Witness ==
  /\ enable_imu_fusion
  /\ IsInitialized
  /\ EverySensorHeard(initial_camera_info_messages)


(***************************************************************************)
(* The timestamp of a tick (SpecSync).                                     *)
(***************************************************************************)
GroupStamps == {idx_and_image_msgs[k][2] : k \in 1 .. Len(idx_and_image_msgs)}

\* C22: in a tick that a group of the synchronizer started, latest_ts is the
\* latest timestamp among the frames of the group and is the representative
\* timestamp the synchronizer emitted the group with; the images of the
\* track call carry it, and the sample a successful tick adds to the pose
\* cache is stamped with it.
C22_TickUsesLatestFrameTimestamp ==
  pcT # "idle" =>
    /\ latest_ts \in GroupStamps
    /\ \A t \in GroupStamps : t <= latest_ts
    /\ latest_ts = sync_latest_ts
    /\ pcT = "intrack" =>
         /\ cuvslam_images # << >>
         /\ \A k \in 1 .. Len(cuvslam_images) : cuvslam_images[k].timestamp = latest_ts
         /\ ENABLED (/\ UpdatePose_TrackReturn(CUVSLAM_SUCCESS, TRUE, CUVSLAM_SUCCESS)
                     /\ pose_cache' # << >>
                     /\ pose_cache'[Len(pose_cache')] = latest_ts)

\* The track call of a tick whose group has frames of two timestamps, the
\* first frame not being the latest.
C22_Witness ==
  /\ pcT = "intrack"
  /\ idx_and_image_msgs[1][2] < latest_ts
  /\ sync_latest_ts = latest_ts


(***************************************************************************)
(* The covariances of the odometry message (SpecPose).                     *)
(***************************************************************************)
\* The 6x6 identity matrix, by row and column.
Identity6 == [i \in 0 .. 5, j \in 0 .. 5 |-> IF i = j THEN 1 ELSE 0]

\* The array a holds the matrix m row by row.
HoldsMatrix(a, m) == \A i \in 0 .. 5, j \in 0 .. 5 : a[i * 6 + j] = m[i, j]

\* C23: in the odometry message a tick publishes, the pose covariance is the
\* 6x6 identity when the pose cache reports its covariance unavailable and
\* the cache's estimate, unchanged, when it reports it available; and the
\* same for the twist covariance and the velocity cache.
C23_UnavailableCovarianceIsIdentity ==
  "odometry" \in published =>
    /\ IF covariance_reports.pose.res
       THEN odom.pose_covariance = covariance_reports.pose.covariance
       ELSE HoldsMatrix(odom.pose_covariance, Identity6)
    /\ IF covariance_reports.twist.res
       THEN odom.twist_covariance = covariance_reports.twist.covariance
       ELSE HoldsMatrix(odom.twist_covariance, Identity6)

\* An odometry message whose pose covariance is the estimate of the pose
\* cache and whose twist covariance is the default, the velocity cache having
\* left something else in the array.
C23_Witness ==
  /\ pcT = "post"
  /\ "odometry" \in published
  /\ covariance_reports.pose.res
  /\ odom.pose_covariance = [k \in 0 .. 35 |-> k % 3]
  /\ ~covariance_reports.twist.res
  /\ covariance_reports.twist.covariance = [k \in 0 .. 35 |-> 2]
  /\ HoldsMatrix(odom.twist_covariance, Identity6)


(***************************************************************************)
(* The fused batch (SpecSequencer).                                        *)
(***************************************************************************)
\* C24: in every tick, whatever the order in which the frames and the
\* inertial samples arrived, every inertial sample of the batch has a
\* timestamp at most the representative timestamp of the group, and the
\* samples are in non-decreasing order of timestamp.
C24_BatchOrderedAndNotAfterGroup ==
  pcT # "idle" =>
    /\ \A k \in 1 .. Len(imu_msgs) : imu_msgs[k] <= sync_latest_ts
    /\ \A j, k \in 1 .. Len(imu_msgs) : j < k => imu_msgs[j] <= imu_msgs[k]

\* A tick whose batch has two samples of different timestamps, the later one
\* with the timestamp of the group.
C24_Witness ==
  /\ pcT = "poll"
  /\ Len(imu_msgs) = 2
  /\ imu_msgs[1] < imu_msgs[2]
  /\ imu_msgs[2] = sync_latest_ts


(***************************************************************************)
(* The synchronized group (SpecSync).                                      *)
(***************************************************************************)
\* The timestamp of the frame of stream s in the group of the running tick.
GroupStamp(s) ==
  idx_and_image_msgs[CHOOSE k \in 1 .. Len(idx_and_image_msgs) :
                       idx_and_image_msgs[k][1] = s][2]

\* The choices the synchronizer had when it emitted the group of the running
\* tick: for every stream the frame it took or one it left in the queue.
Alternatives ==
  {a \in [Streams -> Timestamps] :
     \A s \in Streams :
       \/ a[s] = GroupStamp(s)
       \/ \E k \in 1 .. Len(sync_queues[s]) : a[s] = sync_queues[s][k]}

SpreadOf(a) ==
  MaxOf({a[s] : s \in Streams}) - MinOf({a[s] : s \in Streams})

OneFramePerStream ==
  /\ Len(idx_and_image_msgs) = Cardinality(Streams)
  /\ \A s \in Streams :
       Cardinality({k \in 1 .. Len(idx_and_image_msgs) :
                      idx_and_image_msgs[k][1] = s}) = 1

\* C25: with every stream required, frames of all streams whose timestamps
\* are within the matching threshold never stay in the queues (the frame that
\* completes them triggers a group, and what a group leaves behind holds no
\* second one); the group of a tick has one frame of every stream, within
\* the threshold, and no choice of frames within the threshold that the
\* synchronizer had has a smaller timestamp spread.
C25_OneGroupOfLeastSpread ==
  /\ Eligible(sync_queues) = {}
  /\ pcT # "idle" =>
       /\ OneFramePerStream
       /\ SpreadOf([s \in Streams |-> GroupStamp(s)]) <= SyncMatchingThreshold
       /\ \A a \in Alternatives :
            SpreadOf(a) <= SyncMatchingThreshold
              => SpreadOf([s \in Streams |-> GroupStamp(s)]) <= SpreadOf(a)

\* A tick whose group has no spread, while a frame left in a queue would
\* have made a group within the threshold.
C25_Witness ==
  /\ pcT = "poll"
  /\ SpreadOf([s \in Streams |-> GroupStamp(s)]) = 0
  /\ \E a \in Alternatives :
       /\ SpreadOf(a) = SyncMatchingThreshold
       /\ SyncMatchingThreshold > 0


\* The queues after a frame with timestamp ts overflowed the full queue of
\* stream index: the oldest frame of that queue gone, the new one last, the
\* other queues as they were.
AfterOverflow(index, ts) ==
  [s \in Streams |->
     IF s = index THEN Append(Tail(sync_queues[s]), ts) ELSE sync_queues[s]]

\* q is the queue from with one frame of timestamp ts taken out.
TakenOut(q, from, ts) ==
  \E k \in 1 .. Len(from) : from[k] = ts /\ q = RemoveAt(from, k)

\* What AddMessage leaves when the queue of stream index is full: the
\* overflowed queues if no group is emitted, otherwise those with the frames
\* of the group, one of every stream, taken out.
OverflowOutcome(out, index, ts) ==
  IF out.group = << >>
  THEN out.queues = AfterOverflow(index, ts)
  ELSE \A s \in Streams :
         \E k \in 1 .. Len(out.group) :
           /\ out.group[k][1] = s
           /\ TakenOut(out.queues[s], AfterOverflow(index, ts)[s], out.group[k][2])

\* C26: no queue grows beyond the buffer size; a frame submitted to a full
\* queue is accepted (AddMessage has an outcome), the oldest frame of that
\* queue is dropped, and the queues of the other streams change only by the
\* frames of a group that the new frame completes.
C26_OverflowDropsOldestOfThatStream ==
  /\ \A s \in Streams : Len(sync_queues[s]) <= ImageBufferSize
  /\ (pcT = "idle" /\ IsInitialized) =>
       \A index \in Streams :
         Len(sync_queues[index]) = ImageBufferSize =>
           \A ts \in Timestamps :
             /\ AddMessage(sync_queues, index, ts) # {}
             /\ \A out \in AddMessage(sync_queues, index, ts) :
                  OverflowOutcome(out, index, ts)

\* A full queue whose oldest frame differs from the newest, overflowed by a
\* frame that completes no group: the oldest frame goes.
C26_Witness ==
  \E index \in Streams, ts \in Timestamps :
    /\ pcT = "idle"
    /\ IsInitialized
    /\ Len(sync_queues[index]) = ImageBufferSize
    /\ sync_queues[index][1] # sync_queues[index][ImageBufferSize]
    /\ ENABLED (/\ CallbackImage(index, ts)
                /\ pcT' = "idle"
                /\ sync_queues' = AfterOverflow(index, ts))


(***************************************************************************)
(* The jitter threshold of the sequencer (SpecSequencer).                  *)
(***************************************************************************)
\* A timestamp within the jitter threshold behind the batch at timestamp last.
WithinJitter(ts, last) == last = NoTs \/ ts + ImuJitterThreshold >= last

\* C27: no sample further behind the most recent batch than the jitter
\* threshold is in the sequencer's buffer, and no batch handed to a tick
\* holds a sample further behind the batch before it than the threshold: the
\* samples that were aged out are in no later batch.
C27_AgedOutSamplesStayOut ==
  /\ [](\A k \in 1 .. Len(sequencer_imu) :
          WithinJitter(sequencer_imu[k], sequencer_last_ts))
  /\ [][(pcT = "idle" /\ pcT' = "poll")
          => \A k \in 1 .. Len(imu_msgs') :
               WithinJitter(imu_msgs'[k], sequencer_last_ts)]_vars

\* A tick that starts with a batch after a sample was aged out against an
\* earlier, later-stamped batch; the batch does not hold its timestamp.
C27_Witness ==
  /\ pcT = "poll"
  /\ imu_msgs # << >>
  /\ \E ts \in aged_out :
       /\ ts + ImuJitterThreshold >= sequencer_last_ts
       /\ \A k \in 1 .. Len(imu_msgs) : imu_msgs[k] # ts


(***************************************************************************)
(* The blocked SaveMap and the tracking thread (FairPersist).              *)
(***************************************************************************)
\* The tracking thread can take its next step: a tick can start on a frame
\* of an initialized node, and a tick that has started can go on.
TickCanProceed ==
  /\ (pcT = "idle" /\ IsInitialized) => ENABLED TickStart(<< >>, 1)
  /\ pcT = "poll" => ENABLED UpdatePose_Poll
  /\ pcT = "imu" => ENABLED UpdatePose_Track
  /\ pcT = "intrack" =>
       ENABLED UpdatePose_TrackReturn(CUVSLAM_SUCCESS, FALSE, CUVSLAM_SUCCESS)
  /\ pcT = "post" => ENABLED UpdatePose_Finish

\* C28: a SaveMap whose request the engine accepted, called on a thread of
\* its own while ticks keep occurring and the engine completes the request
\* during a track call, leaves response_future.get() with the status in
\* hand; while it is blocked there the tracking thread can always take its
\* next step, and every tick that has started runs to its end.
C28_BlockedSaveMapReturnsAndTicksGoOn ==
  /\ (pcS = "wait") ~> (pcS = "ret" /\ save_status = save_handler)
  /\ [](pcS = "wait" => TickCanProceed)
  /\ (pcS = "wait" /\ pcT # "idle") ~> (pcT = "idle")

\* SaveMap has left get() with the handler's status while the track call
\* that delivered it has not yet returned.
C28_Witness ==
  /\ pcS = "ret"
  /\ save_waited
  /\ save_handler # "none"
  /\ save_status = save_handler
  /\ pcT = "intrack"


(***************************************************************************)
(* The context a completion handler receives (Spec).                       *)
(***************************************************************************)
\* The engine completes the localize request req: during a track call it
\* invokes LocalizeInExistDbResponse with the pointer the request was
\* registered with, the address of the member context.
CompletesRequest(req) ==
  /\ pcT = "intrack"
  /\ req \in engine_localize
  /\ engine_localize' = engine_localize \ {req}

\* C29: the context a completion handler receives is alive and is the one of
\* the command whose request the engine is completing: a persist request is
\* with the engine only while its SaveMap call, which owns the context, is
\* waiting, and a localize request is completed only while the member
\* context is still that of the command that made the request.
C29_HandlerContextIsItsCommands ==
  /\ [](engine_persist => (pcS = "wait" /\ save_promise = "unset"))
  /\ [][\A req \in engine_localize :
          CompletesRequest(req) => req[1] = ctxGen]_vars


(***************************************************************************)
(* The images of the track call (SpecGroup).                               *)
(***************************************************************************)
\* The entries of the group of the running tick with stream index s.
EntriesOf(s) ==
  {k \in 1 .. Len(idx_and_image_msgs) : idx_and_image_msgs[k][1] = s}

\* The images of the track call for camera i.
ImagesOf(i) ==
  {k \in 1 .. Len(cuvslam_images) : cuvslam_images[k].camera = i}

\* C30: the track call receives exactly one image for every camera frame of
\* the group (the entries with a stream index below the number of cameras),
\* in the order of the group, and none for a mask entry; the image of camera
\* i carries a mask if and only if the group has the entry with stream index
\* i + number of cameras.
C30_OneImagePerCameraFrameMaskIfPresent ==
  pcT = "intrack" =>
    /\ \A i \in Cameras : Cardinality(ImagesOf(i)) = Cardinality(EntriesOf(i))
    /\ \A k \in 1 .. Len(cuvslam_images) :
         /\ cuvslam_images[k].camera \in Cameras
         /\ cuvslam_images[k].mask <=> EntriesOf(cuvslam_images[k].camera + NumCameras) # {}
    /\ \A j, k \in 1 .. Len(cuvslam_images) :
         j < k =>
           \E m, n \in 1 .. Len(idx_and_image_msgs) :
             /\ m < n
             /\ idx_and_image_msgs[m][1] = cuvslam_images[j].camera
             /\ idx_and_image_msgs[n][1] = cuvslam_images[k].camera

\* The track call of a tick whose group holds the mask of camera 0, then the
\* frame of camera 1, then the frame of camera 0: two images, the one of
\* camera 1 without a mask, then the one of camera 0 with the mask.
C30_Witness ==
  /\ pcT = "intrack"
  /\ Len(idx_and_image_msgs) = 3
  /\ idx_and_image_msgs[1][1] = NumCameras
  /\ idx_and_image_msgs[2][1] = 1
  /\ idx_and_image_msgs[3][1] = 0
  /\ Len(cuvslam_images) = 2
  /\ cuvslam_images[1].camera = 1 /\ ~cuvslam_images[1].mask
  /\ cuvslam_images[2].camera = 0 /\ cuvslam_images[2].mask


(***************************************************************************)
(* The sensor callbacks before and after initialization (SpecIngress).     *)
(***************************************************************************)
\* The frame of stream index with timestamp ts has reached the synchronizer:
\* it is the newest frame of its queue or is in the group that was emitted.
FrameForwarded(index, ts) ==
  \/ /\ sync_queues'[index] # << >>
     /\ sync_queues'[index][Len(sync_queues'[index])] = ts
  \/ /\ pcT' = "poll"
     /\ \E k \in 1 .. Len(idx_and_image_msgs') : idx_and_image_msgs'[k] = <<index, ts>>

\* The sample with timestamp ts has reached the sequencer, which has put it
\* last in its buffer or has dropped it as aged out; the initial inertial
\* message is left alone.
SampleForwarded(ts) ==
  /\ initial_imu_message' = initial_imu_message
  /\ IF AgedOut(ts)
     THEN ts \in aged_out' /\ sequencer_imu' = sequencer_imu
     ELSE sequencer_imu' # << >> /\ sequencer_imu'[Len(sequencer_imu')] = ts

\* The sample is kept as the initial inertial message and nothing else
\* changes.
SampleKeptAsInitial ==
  /\ initial_imu_message'
  /\ UNCHANGED <<cfgVars, pcC, cuvslam_handle, initial_camera_info_messages, tickVars,
                 poseVars, streamVars, zombie, saveVars, engine_persist, ctxVars,
                 composed, engine_localize, locCallVars, localization_future_,
                 handler_error>>

\* C31: between ticks, while there is no engine handle a frame of any stream
\* changes nothing (it is not put into the synchronizer's queues) and an
\* inertial sample only becomes the stored initial inertial message; once
\* there is a handle a camera info changes nothing, a frame goes to the
\* synchronizer with its timestamp and an inertial sample goes to the
\* sequencer with its timestamp.
C31_IngressGatedOnInitialization ==
  pcT = "idle" =>
    IF ~IsInitialized
    THEN /\ \A index \in Streams, ts \in Timestamps :
              /\ ENABLED CallbackImage(index, ts)
              /\ ~ENABLED (CallbackImage(index, ts) /\ vars' # vars)
         /\ \A ts \in Timestamps :
              /\ ENABLED CallbackImuStamped(ts)
              /\ ~ENABLED (CallbackImuStamped(ts) /\ ~SampleKeptAsInitial)
    ELSE /\ \A index \in Cameras, ok \in BOOLEAN :
              /\ ENABLED CallbackCameraInfo(index, TRUE)
              /\ ~ENABLED (CallbackCameraInfo(index, ok) /\ vars' # vars)
         /\ \A index \in Streams, ts \in Timestamps :
              /\ ENABLED CallbackImage(index, ts)
              /\ ~ENABLED (CallbackImage(index, ts) /\ ~FrameForwarded(index, ts))
         /\ \A ts \in Timestamps :
              /\ ENABLED CallbackImuStamped(ts)
              /\ ~ENABLED (CallbackImuStamped(ts) /\ ~SampleForwarded(ts))

\* After an Exit (the queues and the buffer still hold what was forwarded
\* while the node was initialized) there is no handle: frames and samples
\* that arrive now are not forwarded.
C31_Witness ==
  /\ pcT = "idle"
  /\ ~IsInitialized
  /\ \/ \E s \in Streams : Len(sync_queues[s]) = ImageBufferSize
     \/ Len(sequencer_imu) = ImuBufferSize
  /\ \A index \in Streams, ts \in Timestamps :
       ~ENABLED (CallbackImage(index, ts) /\ sync_queues' # sync_queues)


(***************************************************************************)
(* One engine instance (SpecInit).                                         *)
(***************************************************************************)
\* C32: at most one engine instance exists at any time, also when the
\* camera-info callbacks of different cameras run on different threads; and
\* an Initialize that finds a handle present returns without creating a
\* tracker.
C32_AtMostOneEngine ==
  /\ Engines <= 1
  /\ \A index \in Cameras :
       (pcC[index] = "init" /\ IsInitialized) =>
         /\ ENABLED InitializeEnter(index)
         /\ ~ENABLED (InitializeEnter(index) /\ pcC'[index] # "idle")


(***************************************************************************)
(* Exit and the state before initialization (SpecPersist).                 *)
(***************************************************************************)
\* The state Exit leaves (lines 364-391): no engine handle, an empty pose
\* cache, no stored camera info and no stored inertial message, the localize
\* promise no longer unset, and a SaveMap that was waiting left torn down.
AfterExit ==
  /\ ~IsInitialized
  /\ pose_cache = << >>
  /\ initial_camera_info_messages = {}
  /\ ~initial_imu_message
  /\ promise[ctxGen] # "unset"
  /\ (pcS = "wait" /\ save_promise = "unset") => save_torn_down

\* C33: every Exit completes and leaves the engine handle absent, the pose
\* cache empty and the stored camera infos and inertial message cleared; from
\* there a camera info creates an engine only if it is the message of every
\* sensor, and a further Exit (the destructor's) finds no engine to destroy
\* and changes nothing.
C33_ExitIdempotentBackToUninitialized ==
  /\ [][Exit => AfterExit']_vars
  /\ [](/\ ENABLED Exit
        /\ AfterExit =>
             /\ ~ENABLED (Exit /\ vars' # vars)
             /\ ~IsReadyForInitializationWith(initial_camera_info_messages)
             /\ \A index \in Cameras :
                  ENABLED (CallbackCameraInfo(index, TRUE) /\ IsInitialized')
                    => EverySensorHeard({index}))

\* Exit has destroyed an engine that had tracked a frame, and a second Exit
\* is now due: nothing is stored, the promise holds Exit's response.
C33_Witness ==
  /\ AfterExit
  /\ last_track_ts # NoTs
  /\ pcT = "idle"
  /\ promise[ctxGen] = CUVSLAM_CAN_NOT_LOCALIZE

=============================================================================
